---- MODULE Spec2Model ----
(***************************************************************************)
(* State-machine model of fly-action: the main phase (OIDC authentication, *)
(* credential handoff, CLI setup) and the post phase (end-of-job           *)
(* notification).  The post phase exists in four revisions:                *)
(*   "sentinel"   src/src/post.ts            (marker-file job status)      *)
(*   "introspect" src/unnamed/part_006:1-261 (GitHub API job status)       *)
(*   "hardcoded"  src/unnamed/part_006:263-373 (status always success)     *)
(*   "handoff"    src/unnamed/part_007       (status read from job state)  *)
(* Strings that the code inspects character by character (step names) are  *)
(* sequences of one-character strings; the cached package-manager state is *)
(* a sequence of JSON tokens, parsed by ParseJSON as JSON.parse does.      *)
(* The main phase exists in three revisions of run():                      *)
(*   "fly"     src/unnamed/part_002      (package managers, job summary)   *)
(*   "flyfrog" src/src/index.ts:30-88    (package managers)                *)
(*   "legacy"  src/src/index.ts:113-149, src/unnamed/part_001              *)
(* and two of authenticateOidc:                                            *)
(*   "postJson" src/src/oidc.ts:54-102   (client.postJson)                 *)
(*   "rawPost"  src/src/oidc.ts:157-236  (client.post, body read raw)      *)
(* A sub claim is a sequence of atoms: "/" and words without "/".          *)
(***************************************************************************)
EXTENDS Integers, Sequences, FiniteSets, TLC

VARIABLES
    variant,          \* which revision of post.ts is running
    jobState,         \* CredentialHandoff: core.getState store (url, token, pm, status)
    pc,               \* position of the post-phase process
    packageManagers,  \* runPost local: parsed package-manager value
    determinedStatus, \* runPost local: the job status put in the payload
    ghEnv,            \* determineJobStatus local: GitHubEnv read from the environment
    apiJobs,          \* determineJobStatus local: jobs.jobs returned by the API
    apiCalls,         \* GitHub API calls made so far (names, in order)
    resolverPath,     \* the return statement by which the job status was decided
    fsProbe,          \* sentinel determineJobStatus: what the file probe saw
    payload,          \* EndCiRequest built by runPost
    httpCalls,        \* POSTs issued to ci/end (payloads, in order)
    response,         \* HTTP response of the POST
    thrown,           \* value thrown out of runPost (kind "none" while there is none)
    clients,          \* HttpClient instances created
    disposed,         \* HttpClient.dispose() calls
    summaryCalls,     \* createJobSummary invocations
    log,              \* core.warning / core.error lines, in order
    failed,           \* core.setFailed messages, in order
    waits,            \* validateReleasePublication: completed waits
    steps,            \* input of analyzeJobSteps / filterMainSteps (pure checks)
    filteredSteps,    \* result of filterMainSteps
    analysis,         \* result of analyzeJobSteps on steps
    mainVariant,      \* which revision of run() is running
    oidcVariant,      \* which revision of authenticateOidc is running
    mpc,              \* position of the main-phase process
    inputUrl,         \* run local: the url input
    idToken,          \* authenticateOidc local: what getIDToken returned
    user,             \* authenticateOidc local: what extractUserFromToken returned
    exchange,         \* authenticateOidc local: outcome of the token-exchange POST
    accessToken,      \* run local: the access token authenticateOidc returned
    detected,         \* run local: what detectPackageManagers returned
    mainThrown,       \* value thrown inside run's try block (kind "none" while none)
    mainFailed,       \* core.setFailed messages of the main phase, in order
    trace,            \* main phase: host calls, log lines, requests, state writes, in order
    workspace,        \* input of detectPackageManagers (pure checks)
    visited           \* directories findFilesRecursive has read

vars == <<variant, jobState, pc, packageManagers, determinedStatus, ghEnv, apiJobs,
          apiCalls, resolverPath, fsProbe, payload, httpCalls, response, thrown, clients, disposed,
          summaryCalls, log, failed, waits, steps,
          filteredSteps, analysis, mainVariant, oidcVariant, mpc,
          inputUrl, idToken, user, exchange, accessToken, detected, mainThrown, mainFailed,
          trace, workspace, visited>>

\* everything the main phase owns
mainVars == <<mainVariant, oidcVariant, mpc, inputUrl, idToken, user, exchange, accessToken,
              detected, mainThrown, mainFailed, trace>>

\* everything the post phase owns, its revision and the job state apart
postLocals == <<pc, packageManagers, determinedStatus, ghEnv, apiJobs, apiCalls,
                resolverPath, fsProbe, payload, httpCalls, response, thrown, clients,
                disposed, summaryCalls, log, failed, waits, steps, filteredSteps, analysis>>

----------------------------------------------------------------------------
(* JavaScript values *)

Undefined == "<undefined>"
Null == "<null>"

\* !x for a string-or-undefined x
Falsy(x) == x \in {Undefined, ""}

\* a || b for strings
OrElse(a, b) == IF Falsy(a) THEN b ELSE a

----------------------------------------------------------------------------
(* Bounds and input sets *)

MaxSteps == 2

Variants == {"sentinel", "introspect", "hardcoded", "handoff"}

Conclusions == {"success", "failure", "cancelled", "skipped", "neutral", "timed_out", Null}

Chars(s) ==
    CASE s = "Build"      -> <<"B", "u", "i", "l", "d">>
      [] s = "Post Build" -> <<"P", "o", "s", "t", " ", "B", "u", "i", "l", "d">>
      [] s = "POST X"     -> <<"P", "O", "S", "T", " ", "X">>
      [] s = "post"       -> <<"p", "o", "s", "t">>
      [] s = "Postman"    -> <<"P", "o", "s", "t", "m", "a", "n">>
      [] OTHER            -> <<>>

\* Step names; a step with hasName = FALSE has no name property at all.
StepNames ==
    {[hasName |-> FALSE, name |-> <<>>]} \cup
    {[hasName |-> TRUE, name |-> Chars(s)] :
        s \in {"Build", "Post Build", "POST X", "post", "Postman", ""}}

StepKinds == {[hasName |-> n.hasName, name |-> n.name, conclusion |-> c] :
                n \in StepNames, c \in Conclusions}

SeqsUpTo(S, n) == UNION {[1..k -> S] : k \in 0..n}

----------------------------------------------------------------------------
(* Step analysis: filterMainSteps and analyzeJobSteps *)

\* String.prototype.toLowerCase, one character at a time
LowerChar(c) ==
    CASE c = "P" -> "p"
      [] c = "O" -> "o"
      [] c = "S" -> "s"
      [] c = "T" -> "t"
      [] c = "B" -> "b"
      [] c = "X" -> "x"
      [] OTHER   -> c

toLowerCase(str) == [i \in 1..Len(str) |-> LowerChar(str[i])]

startsWith(str, prefix) ==
    /\ Len(str) >= Len(prefix)
    /\ SubSeq(str, 1, Len(prefix)) = prefix

PostPrefix == <<"p", "o", "s", "t", " ">>

\* variant of isPostStep that compares without lowering the case
isPostStepCaseSensitive(step) ==
    /\ step.hasName
    /\ startsWith(step.name, PostPrefix)

\* step.name?.toLowerCase().startsWith("post "): undefined (falsy) without a name
isPostStep(step) ==
    /\ step.hasName
    /\ startsWith(toLowerCase(step.name), PostPrefix)

\* variant of filterMainSteps that also drops the steps without a name
filterMainStepsNamedOnly(stepList) ==
    SelectSeq(stepList, LAMBDA step : step.hasName /\ ~isPostStep(step))

\* steps.filter(step => !isPostStep)
filterMainSteps(stepList) == SelectSeq(stepList, LAMBDA step : ~isPostStep(step))

\* the predicate of filteredSteps.some(...)
isFailedStep(step) == step.conclusion = "failure" \/ step.conclusion = "cancelled"

analyzeJobSteps(stepList) ==
    LET mainSteps == filterMainSteps(stepList)
        hasFailedStep == \E i \in 1..Len(mainSteps) : isFailedStep(mainSteps[i])
    IN  IF hasFailedStep THEN "failure" ELSE "success"

----------------------------------------------------------------------------
(* JSON: the cached package-manager state is a sequence of tokens.           *)
(* A parsed value is [t, s, items]: t its type, s the text of a string or    *)
(* number, items the elements of an array, each summarised as [t, s].        *)

StrTokens == {"\"npm\"", "\"maven\"", "\"\""}
NumTokens == {"7"}
Tokens == StrTokens \cup NumTokens \cup {"[", "]", ",", "null", "{}"}

StrOf(tok) ==
    CASE tok = "\"npm\""   -> "npm"
      [] tok = "\"maven\"" -> "maven"
      [] tok = "\"\""      -> ""
      [] OTHER             -> tok

JsUndefined == [t |-> "undefined", s |-> "", items |-> <<>>]
JsArray(items) == [t |-> "array", s |-> "", items |-> items]
JsScalar(tok) ==
    [t |-> IF tok \in StrTokens THEN "string"
           ELSE IF tok \in NumTokens THEN "number"
           ELSE IF tok = "null" THEN "null" ELSE "object",
     s |-> StrOf(tok), items |-> <<>>]

ParseFail == [ok |-> FALSE, next |-> 0, val |-> JsUndefined]

RECURSIVE ParseValue(_, _), ParseElements(_, _, _)

\* value at position i of toks: [ok, next, val]
ParseValue(toks, i) ==
    IF i > Len(toks) THEN ParseFail
    ELSE IF toks[i] \in StrTokens \cup NumTokens \cup {"null", "{}"}
         THEN [ok |-> TRUE, next |-> i + 1, val |-> JsScalar(toks[i])]
    ELSE IF toks[i] = "["
         THEN IF i + 1 <= Len(toks) /\ toks[i + 1] = "]"
              THEN [ok |-> TRUE, next |-> i + 2, val |-> JsArray(<<>>)]
              ELSE ParseElements(toks, i + 1, <<>>)
    ELSE ParseFail

\* elements of an array after "[" or ",", up to the closing "]"
ParseElements(toks, i, acc) ==
    LET e == ParseValue(toks, i)
    IN  IF ~e.ok \/ e.next > Len(toks) THEN ParseFail
        ELSE LET acc2 == Append(acc, [t |-> e.val.t, s |-> e.val.s])
             IN  IF toks[e.next] = "]"
                 THEN [ok |-> TRUE, next |-> e.next + 1, val |-> JsArray(acc2)]
                 ELSE IF toks[e.next] = ","
                 THEN ParseElements(toks, e.next + 1, acc2)
                 ELSE ParseFail

\* JSON.parse: ok = FALSE stands for the SyntaxError it throws
ParseJSON(raw) ==
    LET r == ParseValue(raw, 1)
    IN  IF r.ok /\ r.next = Len(raw) + 1 THEN [ok |-> TRUE, val |-> r.val]
        ELSE [ok |-> FALSE, val |-> JsUndefined]

\* x && ... : JavaScript truthiness of a parsed value
Truthy(v) == v.t \in {"number", "object", "array"} \/ (v.t = "string" /\ v.s # "")

StrLen(str) ==
    CASE str = "npm"   -> 3
      [] str = "maven" -> 5
      [] OTHER         -> 0

\* v.length > 0 (undefined > 0 is false for numbers and plain objects)
LengthPositive(v) ==
    CASE v.t = "array"  -> Len(v.items) > 0
      [] v.t = "string" -> StrLen(v.s) > 0
      [] OTHER          -> FALSE

----------------------------------------------------------------------------
(* Inputs of the post phase *)

FlyUrls == {"", "https://fly.example.com"}
AccessTokens == {"", "test-access-token"}

\* cached package-manager state strings: "", [], ["npm"], ["npm","maven"],
\* an unterminated array, a trailing comma, and JSON that is no array
CachedStates ==
    { <<>>,
      <<"[", "]">>,
      <<"[", "\"npm\"", "]">>,
      <<"[", "\"npm\"", ",", "\"maven\"", "]">>,
      <<"[", "\"npm\"">>,
      <<"[", "\"npm\"", ",", "]">>,
      <<"\"npm\"">>,
      <<"null">>,
      <<"7">>,
      <<"{}">> }

\* job-status key of the "handoff" revision
HandoffStatuses == {"", "failure"}

JobNames == {"build", "test"}

\* step lists a job of the API response carries
JobStepLists ==
    LET ok     == [hasName |-> TRUE, name |-> Chars("Build"), conclusion |-> "success"]
        bad    == [hasName |-> TRUE, name |-> Chars("Build"), conclusion |-> "failure"]
        postKo == [hasName |-> TRUE, name |-> Chars("Post Build"), conclusion |-> "failure"]
    IN  { <<>>, <<ok>>, <<bad>>, <<ok, postKo>>, <<postKo>> }

\* GitHubJob; hasSteps = FALSE is a job without a steps property
Jobs ==
    {[name |-> n, conclusion |-> c, hasSteps |-> TRUE, steps |-> st] :
        n \in JobNames, c \in Conclusions, st \in JobStepLists}
    \cup
    {[name |-> n, conclusion |-> c, hasSteps |-> FALSE, steps |-> <<>>] :
        n \in JobNames, c \in Conclusions}

\* jobs that may precede the job of interest in the response
LeadingJobs ==
    {[name |-> n, conclusion |-> "failure", hasSteps |-> FALSE, steps |-> <<>>] :
        n \in JobNames}

\* jobs.jobs of listJobsForWorkflowRun
JobLists ==
    {<<>>} \cup {<<j>> : j \in Jobs} \cup {<<l, j>> : l \in LeadingJobs, j \in Jobs}

NoEnv == [runId |-> Undefined, repository |-> Undefined, token |-> Undefined,
          jobName |-> Undefined]

----------------------------------------------------------------------------
(* Strategy A: determineJobStatus of the "introspect" revision *)

\* variant of envComplete that does not require the token
envCompleteNoToken(env) == ~(Falsy(env.runId) \/ Falsy(env.repository))

\* getGitHubEnvironment: null (FALSE) when run id, repository or token is missing
envComplete(env) == ~(Falsy(env.runId) \/ Falsy(env.repository) \/ Falsy(env.token))

\* jobs.jobs.find(job => job.name === env.jobName): index of the first match, 0 if none
findJob(jobs, jobName) ==
    IF \E i \in 1..Len(jobs) : jobs[i].name = jobName
    THEN CHOOSE i \in 1..Len(jobs) :
            /\ jobs[i].name = jobName
            /\ \A k \in 1..(i - 1) : jobs[k].name # jobName
    ELSE 0

\* variant of hasStepList that takes an empty array for a step list
hasStepListAnyArray(job) == job.hasSteps

\* currentJob.steps && currentJob.steps.length > 0
hasStepList(job) == job.hasSteps /\ Len(job.steps) > 0

\* variant of jobConcludedFailed that leaves timed_out out
jobConcludedFailedNoTimeout(job) ==
    \/ job.conclusion = "failure"
    \/ job.conclusion = "cancelled"

\* the fallback test on the job's own conclusion
jobConcludedFailed(job) ==
    \/ job.conclusion = "failure"
    \/ job.conclusion = "cancelled"
    \/ job.conclusion = "timed_out"

\* the verdict once the job list is known: [status, path]
statusFromJobs(jobs, jobName) ==
    LET i == findJob(jobs, jobName)
    IN  IF i # 0 /\ hasStepList(jobs[i])
        THEN [status |-> analyzeJobSteps(jobs[i].steps), path |-> "steps"]
        ELSE IF i # 0 /\ jobConcludedFailed(jobs[i])
        THEN [status |-> "failure", path |-> "conclusion"]
        ELSE [status |-> "success", path |-> IF i = 0 THEN "notFound" ELSE "imprecise"]

----------------------------------------------------------------------------
(* Strategy B: determineJobStatus of the "sentinel" revision *)

StatusFile == ".fly-job-status"
Cwd == "/home/runner"
WorkspaceEnvs == {Undefined, "", "/github/workspace"}

\* path.join(dir, file)
pathJoin(dir, file) == <<dir, file>>

\* variant of workspacePath that ignores GITHUB_WORKSPACE
workspacePathCwdOnly(workspaceEnv) == Cwd

\* process.env.GITHUB_WORKSPACE || process.cwd()
workspacePath(workspaceEnv) == OrElse(workspaceEnv, Cwd)

statusFilePath(workspaceEnv) == pathJoin(workspacePath(workspaceEnv), StatusFile)

\* the file systems the probe may find: the marker in any subset of the two places
FileSystems == SUBSET {pathJoin(Cwd, StatusFile), pathJoin("/github/workspace", StatusFile)}

NoProbe == [workspace |-> Undefined, files |-> {}, throws |-> FALSE]

\* variant of sentinelStatus that gives no verdict when the probe throws
sentinelStatusUnknown(probe) ==
    IF probe.throws THEN "unknown"
    ELSE IF statusFilePath(probe.workspace) \in probe.files THEN "success"
    ELSE "failure"

\* try { existsSync(path) ? success : failure } catch { failure }
sentinelStatus(probe) ==
    IF probe.throws THEN "failure"
    ELSE IF statusFilePath(probe.workspace) \in probe.files THEN "success"
    ELSE "failure"

----------------------------------------------------------------------------
(* runPost: values and pure parts *)

NoThrown == [kind |-> "none", message |-> <<>>]
NoResponse == [code |-> 0, body |-> ""]
NoPayload == [status |-> "", hasPm |-> FALSE, pm |-> JsUndefined]

\* revisions that declare packageManagers as [] (the others leave it undefined)
ArrayDefaultVariants == {"sentinel", "introspect"}
\* revisions that render the job summary
SummaryVariants == {"sentinel", "introspect"}
\* revisions whose endpoint is /fly/... (the others post to /flyfrog/...)
FlyPathVariants == {"sentinel", "introspect"}

initialPackageManagers(v) == IF v \in ArrayDefaultVariants THEN JsArray(<<>>) ELSE JsUndefined

\* variant of parsePackageManagers whose catch block is silent
parsePackageManagersSilent(raw, initial) ==
    IF raw = <<>> THEN [val |-> initial, warned |-> FALSE]
    ELSE LET r == ParseJSON(raw)
         IN  IF r.ok THEN [val |-> r.val, warned |-> FALSE]
             ELSE [val |-> initial, warned |-> FALSE]

\* if (state) { try { pm = JSON.parse(state) } catch { core.warning(...state...) } }
parsePackageManagers(raw, initial) ==
    IF raw = <<>> THEN [val |-> initial, warned |-> FALSE]
    ELSE LET r == ParseJSON(raw)
         IN  IF r.ok THEN [val |-> r.val, warned |-> FALSE]
             ELSE [val |-> initial, warned |-> TRUE]

\* variant of buildPayload that drops the length test
buildPayloadAnyTruthy(status, pm) ==
    IF Truthy(pm)
    THEN [status |-> status, hasPm |-> TRUE, pm |-> pm]
    ELSE [status |-> status, hasPm |-> FALSE, pm |-> JsUndefined]

\* variant of buildPayload that reports success whatever the verdict
buildPayloadFixedStatus(status, pm) ==
    IF Truthy(pm) /\ LengthPositive(pm)
    THEN [status |-> "success", hasPm |-> TRUE, pm |-> pm]
    ELSE [status |-> "success", hasPm |-> FALSE, pm |-> JsUndefined]

\* payload = {status}; if (pm && pm.length > 0) payload.package_managers = pm
buildPayload(status, pm) ==
    IF Truthy(pm) /\ LengthPositive(pm)
    THEN [status |-> status, hasPm |-> TRUE, pm |-> pm]
    ELSE [status |-> status, hasPm |-> FALSE, pm |-> JsUndefined]

ciEndPath(v) == IF v \in FlyPathVariants THEN "/fly/api/v1/ci/end" ELSE "/flyfrog/api/v1/ci/end"

CodeStr(code) ==
    CASE code = 200 -> "200"
      [] code = 201 -> "201"
      [] code = 401 -> "401"
      [] code = 404 -> "404"
      [] code = 500 -> "500"
      [] OTHER      -> "?"

\* variant of failureMessage that leaves the response body out
failureMessageNoBody(v, resp) ==
    IF v = "handoff"
    THEN <<"FlyFrog CI end notification failed ", CodeStr(resp.code)>>
    ELSE <<"Failed to send CI end notification. Status: ", CodeStr(resp.code)>>

\* the message of the Error thrown for a non-200 response
failureMessage(v, resp) ==
    IF v = "handoff"
    THEN <<"FlyFrog CI end notification failed ", CodeStr(resp.code), ": ", resp.body>>
    ELSE <<"Failed to send CI end notification. Status: ", CodeStr(resp.code),
           ". Body: ", resp.body>>

\* responses and transport failures the POST may end with
Responses ==
    { [code |-> 200, body |-> "Notification sent"],
      [code |-> 201, body |-> ""],
      [code |-> 404, body |-> ""],
      [code |-> 500, body |-> "Internal server error"] }

TransportErrors ==
    { [kind |-> "Error", message |-> <<"Network error">>],
      [kind |-> "string", message |-> <<"Network problem string">>] }

\* variant of afterResponse that writes the job summary whatever the verdict
afterResponseAnyStatus(v, resp, status) ==
    IF resp.code = 200
    THEN IF v = "handoff" THEN "top"
         ELSE IF v \in SummaryVariants THEN "summary"
         ELSE "finally"
    ELSE IF v = "handoff" THEN "top" ELSE "caught"

\* variant of afterResponse that posts again after a non-200 response
afterResponseRetry(v, resp, status) ==
    IF resp.code = 200
    THEN IF v = "handoff" THEN "top"
         ELSE IF v \in SummaryVariants /\ status = "success" THEN "summary"
         ELSE "finally"
    ELSE "send"

\* what follows a received response: the next position of runPost
afterResponse(v, resp, status) ==
    IF resp.code = 200
    THEN IF v = "handoff" THEN "top"
         ELSE IF v \in SummaryVariants /\ status = "success" THEN "summary"
         ELSE "finally"
    ELSE IF v = "handoff" THEN "top" ELSE "caught"

\* validateReleasePublication: totalTime / updateInterval waits
TotalTime == 50000
UpdateInterval == 5000
Updates == TotalTime \div UpdateInterval

Warn(text, arg) == [level |-> "warning", text |-> text, arg |-> arg]
Err(text, arg) == [level |-> "error", text |-> text, arg |-> arg]
Info(text, arg) == [level |-> "info", text |-> text, arg |-> arg]

----------------------------------------------------------------------------
(* The main phase: identity tokens and the subject claim *)

MainVariants == {"fly", "flyfrog", "legacy"}
OidcVariants == {"postJson", "rawPost"}

\* revisions of run() that detect package managers and save them
DetectingVariants == {"fly", "flyfrog"}

InputUrls == {"", "https://fly.example.com"}

\* a sub claim is a sequence of these: the separator and words that hold no "/"
Atoms == {"/", "users", "jfrt@svc", "name"}

MaxSubLen == 4

\* what getIDToken returns: undefined, the empty string, or a token of `segments`
\* dot-separated parts whose middle part decodes to garbage ("garbage": not base64
\* JSON, or JSON null), to an object without a sub ("nosub") or to one with it ("sub")
NoIdToken == [kind |-> "undefined", segments |-> 0, claims |-> "none", sub |-> <<>>]
EmptyIdToken == [kind |-> "empty", segments |-> 1, claims |-> "none", sub |-> <<>>]
Jwt(n, claims, sub) == [kind |-> "jwt", segments |-> n, claims |-> claims, sub |-> sub]

\* identity tokens the CI host hands out in the main phase
IdTokens ==
    { Jwt(3, "sub", <<"name">>),
      Jwt(3, "sub", <<"users", "/", "name">>),
      Jwt(3, "sub", <<"name", "/">>),
      Jwt(2, "sub", <<"name">>),
      Jwt(3, "garbage", <<>>),
      Jwt(3, "nosub", <<>>) }

\* values core.getIDToken may throw
HostErrors ==
    { [kind |-> "Error", message |-> <<"Unable to get ACTIONS_ID_TOKEN_REQUEST_URL env variable">>],
      [kind |-> "string", message |-> <<"host failure string">>] }

NoUser == [defined |-> FALSE, name |-> <<>>]

\* sub.includes("/")
includes(sub, atom) == \E i \in DOMAIN sub : sub[i] = atom

\* sub.indexOf("/"), counted from 1; 0 when there is none
indexOf(sub, atom) ==
    IF includes(sub, atom)
    THEN CHOOSE i \in DOMAIN sub : sub[i] = atom /\ \A j \in 1..(i - 1) : sub[j] # atom
    ELSE 0

\* sub.lastIndexOf("/"), counted from 1; 0 when there is none
lastIndexOf(sub, atom) ==
    IF includes(sub, atom)
    THEN CHOOSE i \in DOMAIN sub : sub[i] = atom /\ \A j \in (i + 1)..Len(sub) : sub[j] # atom
    ELSE 0

\* variant of substring that hands back the whole string
substringWhole(sub, from) == sub

\* sub.substring(from), from counted from 1
substring(sub, from) == SubSeq(sub, from, Len(sub))

\* variant of extractUserFromToken that cuts at the first "/"
extractUserFromTokenFirstSlash(token) ==
    IF token.segments # 3 \/ token.claims = "garbage"
    THEN [user |-> NoUser, warned |-> TRUE]
    ELSE IF token.claims = "sub" /\ token.sub # <<>>
    THEN [user |-> [defined |-> TRUE,
                    name |-> IF includes(token.sub, "/")
                             THEN substring(token.sub, indexOf(token.sub, "/") + 1)
                             ELSE token.sub],
          warned |-> FALSE]
    ELSE [user |-> NoUser, warned |-> FALSE]

\* extractUserFromToken: [user, warned]; warned stands for the core.warning of the catch
extractUserFromToken(token) ==
    IF token.segments # 3 \/ token.claims = "garbage"
    THEN [user |-> NoUser, warned |-> TRUE]
    ELSE IF token.claims = "sub" /\ token.sub # <<>>
    THEN [user |-> [defined |-> TRUE,
                    name |-> IF includes(token.sub, "/")
                             THEN substring(token.sub, lastIndexOf(token.sub, "/") + 1)
                             ELSE token.sub],
          warned |-> FALSE]
    ELSE [user |-> NoUser, warned |-> FALSE]

\* variant of idTokenMissing that lets the empty string through
idTokenMissingUndefinedOnly(token) == token.kind = "undefined"

\* !idToken
idTokenMissing(token) == token.kind \in {"undefined", "empty"}

\* variant of userMissing that goes on without a principal
userMissingNever(u) == FALSE

\* !user
userMissing(u) == ~u.defined \/ u.name = <<>>

----------------------------------------------------------------------------
(* The main phase: the token exchange *)

BodyToken == "{\"access_token\":\"tokval\"}"
BodyEmptyToken == "{\"access_token\":\"\"}"
BodyNoToken == "{}"
BodyNull == "null"
BodyText == "error body"

\* responses of the token-exchange endpoint
ExchangeResponses ==
    { [code |-> 200, body |-> BodyToken],
      [code |-> 200, body |-> BodyEmptyToken],
      [code |-> 200, body |-> BodyNoToken],
      [code |-> 200, body |-> BodyNull],
      [code |-> 200, body |-> BodyText],
      [code |-> 200, body |-> ""],
      [code |-> 201, body |-> BodyToken],
      [code |-> 401, body |-> BodyToken],
      [code |-> 404, body |-> ""],
      [code |-> 500, body |-> BodyText] }

\* values the HTTP client may throw instead of answering
ExchangeErrors ==
    { [kind |-> "Error", message |-> <<"connect ECONNREFUSED">>],
      [kind |-> "string", message |-> <<"failString">>] }

JsonObject(token) == [t |-> "object", access_token |-> token]
JsonNull == [t |-> "null", access_token |-> ""]

\* JSON.parse of a response body: ok = FALSE stands for the SyntaxError
ParseBody(body) ==
    CASE body = BodyToken      -> [ok |-> TRUE, val |-> JsonObject("tokval")]
      [] body = BodyEmptyToken -> [ok |-> TRUE, val |-> JsonObject("")]
      [] body = BodyNoToken    -> [ok |-> TRUE, val |-> JsonObject("")]
      [] body = BodyNull       -> [ok |-> TRUE, val |-> JsonNull]
      [] OTHER                 -> [ok |-> FALSE, val |-> JsonNull]

\* try { parsedJson = JSON.parse(body); parsedJson.access_token ... } catch { parsedJson = {} }
parsedJson(body) ==
    LET r == ParseBody(body)
    IN  IF r.ok /\ r.val.t # "null" THEN r.val ELSE JsonObject("")

\* String(response.result)
StringOf(result) == IF result.t = "null" THEN "null" ELSE "[object Object]"

NoExchange == [kind |-> "none", code |-> 0, body |-> "", result |-> JsonNull, error |-> NoThrown]

\* client.postJson of @actions/http-client: 404 resolves with a null result, any other
\* status above 299 rejects with the body as message, the rest resolves with the
\* parsed body or null
postJson(resp) ==
    LET r == ParseBody(resp.body)
        result == IF resp.code # 404 /\ resp.body # "" /\ r.ok THEN r.val ELSE JsonNull
    IN  IF resp.code > 299 /\ resp.code # 404
        THEN [kind |-> "rejected", code |-> resp.code, body |-> resp.body, result |-> result,
              error |-> [kind |-> "Error",
                         message |-> IF resp.body # "" THEN <<resp.body>>
                                     ELSE <<"Failed request: (", CodeStr(resp.code), ")">>]]
        ELSE [kind |-> "response", code |-> resp.code, body |-> resp.body, result |-> result,
              error |-> NoThrown]

\* client.post followed by readBody: every status resolves, the body is kept raw
rawPost(resp) ==
    [kind |-> "response", code |-> resp.code, body |-> resp.body,
     result |-> parsedJson(resp.body), error |-> NoThrown]

\* variant of Return that hands back an empty credential
ReturnEmpty(token) == [ok |-> TRUE, accessToken |-> "", message |-> <<>>]

Return(token) == [ok |-> TRUE, accessToken |-> token, message |-> <<>>]
Throw(message) == [ok |-> FALSE, accessToken |-> "", message |-> message]

\* variant of exchangeResult that hands back whatever token field a 200 response has
exchangeResultUnchecked(ov, ex) ==
    IF ex.code # 200
    THEN Throw(<<"Token exchange failed ", CodeStr(ex.code), ": ",
                 IF ov = "postJson" THEN StringOf(ex.result) ELSE ex.body>>)
    ELSE Return(ex.result.access_token)

\* the part of authenticateOidc after the response: the credential or the Error thrown
exchangeResult(ov, ex) ==
    IF ov = "postJson"
    THEN IF ex.code # 200
         THEN Throw(<<"Token exchange failed ", CodeStr(ex.code), ": ", StringOf(ex.result)>>)
         ELSE IF ex.result.t = "null"
         THEN Throw(<<"Token exchange returned empty response body">>)
         ELSE IF ex.result.access_token = ""
         THEN Throw(<<"Token response did not contain an access token">>)
         ELSE Return(ex.result.access_token)
    ELSE IF ex.code # 200
         THEN Throw(<<"Token exchange failed ", CodeStr(ex.code), ": ", ex.body>>)
         ELSE IF ex.result.access_token = ""
         THEN Throw(<<"Token response did not contain an access token, body: ", ex.body>>)
         ELSE Return(ex.result.access_token)

tokenExchangePath(ov) ==
    IF ov = "postJson" THEN "/api/v1/oidc/token" ELSE "/access/api/v1/oidc/token"

----------------------------------------------------------------------------
(* The main phase: detectPackageManagers *)

MAX_DEPTH == 2

\* most files a sample tree holds
MaxFiles == 2

EXCLUDED_DIRS ==
    {"node_modules", ".git", ".github", "dist", "lib", "bin", "coverage", ".vscode", ".idea",
     "target", "build", "__pycache__", ".venv", "venv", "env", ".env", "site-packages"}

\* the entries for npm, pip and maven; patterns are lower case already
PACKAGE_MANAGER_FILE_IDENTIFIERS ==
    << [file |-> {"package.json"}, manager |-> "npm"],
       [file |-> {"requirements.txt", "setup.py", "pyproject.toml"}, manager |-> "pip"],
       [file |-> {"pom.xml"}, manager |-> "maven"] >>

\* directory names of the sample trees, in the order readdirSync lists them
DirNames == <<"node_modules", "src">>

\* file names of the sample trees, as parts, in the order readdirSync lists them
FileNames ==
    << <<"Setup.PY">>, <<"my-", "package.json">>, <<"notes.txt">>, <<"package.json">>,
       <<"requirements.txt">> >>

Elements(seq) == {seq[i] : i \in DOMAIN seq}

\* directories of the sample trees: paths from the root, one level deeper than is read
DirPaths == SeqsUpTo(Elements(DirNames), MAX_DEPTH + 1)

\* a file: the directories from the root down to it, and its name
FileSlots == {[dirs |-> d, name |-> n] : d \in DirPaths, n \in Elements(FileNames)}

RECURSIVE FileSets(_)

\* the sets of at most n files
FileSets(n) ==
    IF n = 0 THEN {{}}
    ELSE LET smaller == FileSets(n - 1)
         IN  smaller \cup {t \cup {f} : t \in smaller, f \in FileSlots}

NoWorkspace == [path |-> "", exists |-> FALSE, files |-> {}]

\* GITHUB_WORKSPACE || "": unset, not on disk, or a directory tree
Workspaces ==
    {NoWorkspace, [path |-> "/repo", exists |-> FALSE, files |-> {}]}
        \cup {[path |-> "/repo", exists |-> TRUE, files |-> t] : t \in FileSets(MaxFiles)}

isPrefix(p, q) == Len(p) <= Len(q) /\ SubSeq(q, 1, Len(p)) = p

DirEntry(name) == [isDirectory |-> TRUE, dir |-> name, file |-> <<>>]
FileEntry(name) == [isDirectory |-> FALSE, dir |-> "", file |-> name]

\* fs.readdirSync(currentPath, {withFileTypes: true}) with statSync of every entry
readdirSync(files, currentPath) ==
    LET dirs == SelectSeq(DirNames,
                    LAMBDA d : \E f \in files : isPrefix(Append(currentPath, d), f.dirs))
        here == SelectSeq(FileNames,
                    LAMBDA n : [dirs |-> currentPath, name |-> n] \in files)
    IN  [i \in 1..Len(dirs) |-> DirEntry(dirs[i])]
            \o [i \in 1..Len(here) |-> FileEntry(here[i])]

\* the last part of entry.name.toLowerCase()
fileNameLower(name) ==
    LET last == name[Len(name)]
    IN  IF last = "Setup.PY" THEN "setup.py" ELSE last

\* patterns.some(pattern => fileNameLower.endsWith(pattern))
matches(check, name) == fileNameLower(name) \in check.file

RECURSIVE applyChecks(_, _, _)

\* for (const check of checks): add check.manager unless foundManagers has it
applyChecks(foundManagers, name, k) ==
    IF k > Len(PACKAGE_MANAGER_FILE_IDENTIFIERS) THEN foundManagers
    ELSE LET check == PACKAGE_MANAGER_FILE_IDENTIFIERS[k]
             hit == /\ matches(check, name)
                    /\ check.manager \notin Elements(foundManagers)
         IN  applyChecks(IF hit THEN Append(foundManagers, check.manager) ELSE foundManagers,
                         name, k + 1)

\* variant of tooDeep that reads one level more
tooDeepOneMore(depth) == depth > MAX_DEPTH + 1

\* if (depth > maxDepth) return
tooDeep(depth) == depth > MAX_DEPTH

\* excludedDirs.has(entry.name)
excluded(name) == name \in EXCLUDED_DIRS

RECURSIVE findFilesRecursive(_, _, _, _), forEntries(_, _, _, _, _)

\* findFilesRecursive; acc holds foundManagers (in insertion order) and the directories read
findFilesRecursive(files, currentPath, depth, acc) ==
    IF tooDeep(depth) THEN acc
    ELSE forEntries(files, currentPath, depth, readdirSync(files, currentPath),
                    [acc EXCEPT !.visited = @ \cup {currentPath}])

\* for (const entry of entries) { ... }
forEntries(files, currentPath, depth, entries, acc) ==
    IF entries = <<>> THEN acc
    ELSE LET entry == Head(entries)
             after ==
                 IF entry.isDirectory
                 THEN IF excluded(entry.dir) THEN acc
                      ELSE findFilesRecursive(files, Append(currentPath, entry.dir),
                                              depth + 1, acc)
                 ELSE [acc EXCEPT !.found = applyChecks(@, entry.file, 1)]
         IN  forEntries(files, currentPath, depth, Tail(entries), after)

\* detectPackageManagers: [] for an empty or missing root, else Array.from(detected)
detectPackageManagers(ws) ==
    IF ws.path = "" \/ ~ws.exists
    THEN [found |-> <<>>, visited |-> {}]
    ELSE findFilesRecursive(ws.files, <<>>, 0, [found |-> <<>>, visited |-> {}])

----------------------------------------------------------------------------
(* The main phase: handoff and CLI setup *)

\* lists detectPackageManagers may return (Array.from of a Set: no duplicates)
DetectedLists ==
    { <<>>, <<"npm">>, <<"maven">>, <<"npm", "maven">>, <<"maven", "npm">> }

\* JSON text of one string
TokOf(str) ==
    CASE str = "npm"   -> "\"npm\""
      [] str = "maven" -> "\"maven\""
      [] OTHER         -> "\"\""

\* variant of Stringify that forgets the commas
StringifyNoCommas(list) ==
    IF list = <<>> THEN <<"[", "]">>
    ELSE <<"[">> \o [i \in 1..Len(list) |-> TokOf(list[i])] \o <<"]">>

\* JSON.stringify of an array of strings, as tokens
Stringify(list) ==
    <<"[">> \o [i \in 1..(2 * Len(list) - 1) |->
                  IF i % 2 = 1 THEN TokOf(list[(i + 1) \div 2]) ELSE ","]
            \o <<"]">>

\* how resolving the binary and running `setup` may end
CliOutcomes ==
    { [kind |-> "missing", code |-> 0, error |-> NoThrown],
      [kind |-> "exit", code |-> 0, error |-> NoThrown],
      [kind |-> "exit", code |-> 1, error |-> NoThrown],
      [kind |-> "throws", code |-> 0,
       error |-> [kind |-> "Error", message |-> <<"spawn failed">>]],
      [kind |-> "throws", code |-> 0,
       error |-> [kind |-> "string", message |-> <<"exec failure string">>]] }

setupFailedMessage(mv) ==
    IF mv = "fly" THEN <<"Fly setup command failed">> ELSE <<"FlyFrog setup command failed">>

binaryMissingMessage(mv) ==
    IF mv = "fly" THEN <<"Fly CLI binary not found">> ELSE <<"FlyFrog CLI binary not found">>

\* variant of mainFailedMessage that passes a non-Error value through
mainFailedMessageRaw(e) == e.message

\* variant of mainFailedMessage that reports every failure with the generic message
mainFailedMessageGeneric(e) == <<"An unknown error occurred">>

\* if (error instanceof Error) setFailed(error.message) else setFailed("An unknown error occurred")
mainFailedMessage(e) ==
    IF e.kind = "Error" THEN e.message ELSE <<"An unknown error occurred">>

Ev(op, arg) == [op |-> op, arg |-> arg]

\* the main phase before run() is entered, and in runs of the post phase alone
MainLocals ==
    /\ inputUrl = ""
    /\ idToken = NoIdToken
    /\ user = NoUser
    /\ exchange = NoExchange
    /\ accessToken = ""
    /\ detected = <<>>
    /\ mainThrown = NoThrown
    /\ mainFailed = <<>>
    /\ trace = <<>>
    /\ workspace = NoWorkspace
    /\ visited = {}

MainIdle ==
    /\ mainVariant = "fly"
    /\ oidcVariant = "rawPost"
    /\ mpc = "idle"
    /\ MainLocals

----------------------------------------------------------------------------
(* The post phase *)

InitLocals ==
    /\ packageManagers = JsUndefined
    /\ determinedStatus = ""
    /\ ghEnv = NoEnv
    /\ apiJobs = <<>>
    /\ apiCalls = <<>>
    /\ resolverPath = "none"
    /\ fsProbe = NoProbe
    /\ payload = NoPayload
    /\ httpCalls = <<>>
    /\ response = NoResponse
    /\ thrown = NoThrown
    /\ clients = 0
    /\ disposed = 0
    /\ summaryCalls = 0
    /\ log = <<>>
    /\ failed = <<>>
    /\ waits = 0
    /\ filteredSteps = <<>>

Init ==
    /\ variant \in Variants
    /\ jobState \in [url : FlyUrls, token : AccessTokens, pm : CachedStates,
                     status : HandoffStatuses]
    /\ (variant # "handoff" => jobState.status = "")
    /\ pc = "start"
    /\ InitLocals
    /\ steps = <<>>
    /\ analysis = "none"
    /\ MainIdle

\* variant of credentialsPresent that forgets the token check
credentialsPresentUrlOnly(st) == ~Falsy(st.url)

\* variant of credentialsPresent that always skips
credentialsPresentNever(st) == FALSE

\* if (!flyUrl) return; if (!accessToken) return;
credentialsPresent(st) == ~Falsy(st.url) /\ ~Falsy(st.token)

\* runPost of sentinel, introspect and hardcoded: read URL and token, skip if absent
GetState ==
    /\ pc = "start"
    /\ variant # "handoff"
    /\ pc' = IF credentialsPresent(jobState) THEN "parse" ELSE "top"
    /\ UNCHANGED <<variant, jobState, packageManagers, determinedStatus, ghEnv, apiJobs,
                   apiCalls, resolverPath, fsProbe, payload, httpCalls, response, thrown,
                   clients, disposed, summaryCalls, log, failed, waits, steps,
                   filteredSteps, analysis, mainVars, workspace, visited>>

\* runPost of handoff: read everything, status = state || env JOB_STATUS || "unknown"
GetStateHandoff ==
    /\ pc = "start"
    /\ variant = "handoff"
    /\ \E envStatus \in {Undefined, "success", "cancelled"} :
          determinedStatus' = OrElse(OrElse(jobState.status, envStatus), "unknown")
    /\ resolverPath' = "handoff"
    /\ pc' = "parse"
    /\ UNCHANGED <<variant, jobState, packageManagers, ghEnv, apiJobs, apiCalls, fsProbe,
                   payload, httpCalls, response, thrown, clients, disposed, summaryCalls,
                   log, failed, waits, steps, filteredSteps, analysis, mainVars,
                   workspace, visited>>

\* parse the cached package-manager state, warning on a parse failure
ParsePackageManagers ==
    /\ pc = "parse"
    /\ LET r == parsePackageManagers(jobState.pm, initialPackageManagers(variant))
       IN  /\ packageManagers' = r.val
           /\ log' = IF r.warned
                     THEN Append(log, Warn("Failed to parse package managers from state",
                                           jobState.pm))
                     ELSE log
    /\ pc' = IF variant = "handoff" THEN "check" ELSE "resolve"
    /\ UNCHANGED <<variant, jobState, determinedStatus, ghEnv, apiJobs, apiCalls,
                   resolverPath, fsProbe, payload, httpCalls, response, thrown, clients,
                   disposed, summaryCalls, failed, waits, steps, filteredSteps, analysis, mainVars,
                   workspace, visited>>

\* runPost of handoff: the URL and token checks come after the parse
CheckHandoff ==
    /\ pc = "check"
    /\ pc' = IF credentialsPresent(jobState) THEN "build" ELSE "top"
    /\ UNCHANGED <<variant, jobState, packageManagers, determinedStatus, ghEnv, apiJobs,
                   apiCalls, resolverPath, fsProbe, payload, httpCalls, response, thrown,
                   clients, disposed, summaryCalls, log, failed, waits, steps,
                   filteredSteps, analysis, mainVars, workspace, visited>>

\* determineJobStatus of sentinel: probe the marker file
ResolveSentinel ==
    /\ pc = "resolve"
    /\ variant = "sentinel"
    /\ \E ws \in WorkspaceEnvs, files \in FileSystems, throws \in BOOLEAN :
          LET probe == [workspace |-> ws, files |-> files, throws |-> throws]
          IN  /\ fsProbe' = probe
              /\ determinedStatus' = sentinelStatus(probe)
              /\ log' = IF throws
                        THEN Append(log, Warn("Error checking job status file", <<>>))
                        ELSE log
    /\ resolverPath' = "sentinel"
    /\ pc' = "build"
    /\ UNCHANGED <<variant, jobState, packageManagers, ghEnv, apiJobs, apiCalls, payload,
                   httpCalls, response, thrown, clients, disposed, summaryCalls, failed,
                   waits, steps, filteredSteps, analysis, mainVars, workspace, visited>>

\* the hardcoded revision: const determinedStatus = "success"
ResolveHardcoded ==
    /\ pc = "resolve"
    /\ variant = "hardcoded"
    /\ determinedStatus' = "success"
    /\ resolverPath' = "hardcoded"
    /\ pc' = "build"
    /\ UNCHANGED <<variant, jobState, packageManagers, ghEnv, apiJobs, apiCalls, fsProbe,
                   payload, httpCalls, response, thrown, clients, disposed, summaryCalls,
                   log, failed, waits, steps, filteredSteps, analysis, mainVars,
                   workspace, visited>>

\* determineJobStatus of introspect, first part: getGitHubEnvironment
GetGitHubEnvironment ==
    /\ pc = "resolve"
    /\ variant = "introspect"
    /\ \E runId \in {Undefined, "42"}, repository \in {Undefined, "octo/repo"},
          inputToken \in {"", "input-token"}, envToken \in {Undefined, "env-token"},
          jobName \in {Undefined, "build"} :
          LET env == [runId |-> runId, repository |-> repository,
                      token |-> OrElse(inputToken, envToken), jobName |-> jobName]
          IN  /\ ghEnv' = env
              /\ IF envComplete(env)
                 THEN /\ pc' = "getRun"
                      /\ UNCHANGED <<determinedStatus, resolverPath, log>>
                 ELSE /\ determinedStatus' = "success"
                      /\ resolverPath' = "envMissing"
                      /\ log' = Append(log, Warn("Missing GitHub environment variables", <<>>))
                      /\ pc' = "build"
    /\ UNCHANGED <<variant, jobState, packageManagers, apiJobs, apiCalls, fsProbe, payload,
                   httpCalls, response, thrown, clients, disposed, summaryCalls, failed,
                   waits, steps, filteredSteps, analysis, mainVars, workspace, visited>>

\* variant of ApiErrorFallback that fails closed
ApiErrorFailClosed ==
    /\ determinedStatus' = "failure"
    /\ resolverPath' = "apiError"
    /\ log' = Append(log, Warn("Failed to check job status via GitHub API", <<>>))
    /\ pc' = "build"

\* the catch (apiError) branch of determineJobStatus
ApiErrorFallback ==
    /\ determinedStatus' = "success"
    /\ resolverPath' = "apiError"
    /\ log' = Append(log, Warn("Failed to check job status via GitHub API", <<>>))
    /\ pc' = "build"

\* octokit.rest.actions.getWorkflowRun
GetWorkflowRun ==
    /\ pc = "getRun"
    /\ apiCalls' = Append(apiCalls, "getWorkflowRun")
    /\ \E throws \in BOOLEAN :
          IF throws THEN ApiErrorFallback
          ELSE /\ pc' = "listJobs"
               /\ UNCHANGED <<determinedStatus, resolverPath, log>>
    /\ UNCHANGED <<variant, jobState, packageManagers, ghEnv, apiJobs, fsProbe, payload,
                   httpCalls, response, thrown, clients, disposed, summaryCalls, failed,
                   waits, steps, filteredSteps, analysis, mainVars, workspace, visited>>

\* octokit.rest.actions.listJobsForWorkflowRun, then find the job and decide
ListJobsForWorkflowRun ==
    /\ pc = "listJobs"
    /\ apiCalls' = Append(apiCalls, "listJobsForWorkflowRun")
    /\ \/ /\ ApiErrorFallback
          /\ UNCHANGED apiJobs
       \/ \E jobs \in JobLists :
             LET r == statusFromJobs(jobs, ghEnv.jobName)
             IN  /\ apiJobs' = jobs
                 /\ determinedStatus' = r.status
                 /\ resolverPath' = r.path
                 /\ log' = IF r.path \in {"imprecise", "notFound"}
                           THEN Append(log, Warn("Could not determine job status precisely",
                                                 <<>>))
                           ELSE log
                 /\ pc' = "build"
    /\ UNCHANGED <<variant, jobState, packageManagers, ghEnv, fsProbe, payload, httpCalls,
                   response, thrown, clients, disposed, summaryCalls, failed, waits, steps,
                   filteredSteps, analysis, mainVars, workspace, visited>>

\* build the EndCiRequest; determineJobStatus has returned and its locals are gone
BuildPayload ==
    /\ pc = "build"
    /\ payload' = buildPayload(determinedStatus, packageManagers)
    /\ ghEnv' = NoEnv
    /\ apiJobs' = <<>>
    /\ fsProbe' = NoProbe
    /\ pc' = "send"
    /\ UNCHANGED <<variant, jobState, packageManagers, determinedStatus, apiCalls,
                   resolverPath, httpCalls, response, thrown, clients, disposed,
                   summaryCalls, log, failed, waits, steps, filteredSteps, analysis, mainVars,
                   workspace, visited>>

\* where a transport exception of the POST lands
afterTransportError(v) == IF v = "handoff" THEN "top" ELSE "caught"

\* new HttpClient(...); await httpClient.post(url, JSON.stringify(payload), headers)
SendNotification ==
    /\ pc = "send"
    /\ clients' = clients + 1
    /\ httpCalls' = Append(httpCalls,
                           [url |-> <<jobState.url, ciEndPath(variant)>>,
                            authorization |-> <<"Bearer ", jobState.token>>,
                            body |-> payload])
    /\ \/ \E resp \in Responses :
             /\ response' = resp
             /\ pc' = "handle"
             /\ UNCHANGED thrown
       \/ \E e \in TransportErrors :
             /\ thrown' = e
             /\ pc' = afterTransportError(variant)
             /\ UNCHANGED response
    /\ UNCHANGED <<variant, jobState, packageManagers, determinedStatus, ghEnv, apiJobs,
                   apiCalls, resolverPath, fsProbe, payload, disposed, summaryCalls, log,
                   failed, waits, steps, filteredSteps, analysis, mainVars,
                   workspace, visited>>

\* the status-code test on the response: 200 goes on, anything else throws
HandleResponse ==
    /\ pc = "handle"
    /\ pc' = afterResponse(variant, response, determinedStatus)
    /\ IF response.code = 200
       THEN UNCHANGED <<thrown, log>>
       ELSE /\ thrown' = [kind |-> "Error", message |-> failureMessage(variant, response)]
            /\ log' = Append(log, Err("notification failed", failureMessage(variant, response)))
    /\ UNCHANGED <<variant, jobState, packageManagers, determinedStatus, ghEnv, apiJobs,
                   apiCalls, resolverPath, fsProbe, payload, httpCalls, response, clients,
                   disposed, summaryCalls, failed, waits, steps, filteredSteps, analysis, mainVars,
                   workspace, visited>>

\* variant of CreateJobSummary that lets a failed write escape as an exception
CreateJobSummaryThrows ==
    /\ pc = "summary"
    /\ summaryCalls' = summaryCalls + 1
    /\ \E fails \in BOOLEAN :
          IF fails \/ packageManagers.t # "array"
          THEN /\ thrown' = [kind |-> "Error", message |-> <<"Failed to create job summary">>]
               /\ pc' = "caught"
          ELSE /\ pc' = "finally"
               /\ UNCHANGED thrown
    /\ UNCHANGED <<variant, jobState, packageManagers, determinedStatus, ghEnv, apiJobs,
                   apiCalls, resolverPath, fsProbe, payload, httpCalls, response, clients,
                   disposed, log, failed, waits, steps, filteredSteps, analysis, mainVars,
                   workspace, visited>>

\* createJobSummary: catches its own errors and only warns
CreateJobSummary ==
    /\ pc = "summary"
    /\ summaryCalls' = summaryCalls + 1
    /\ \E fails \in BOOLEAN :
          log' = IF fails \/ packageManagers.t # "array"
                 THEN Append(log, Warn("Failed to create job summary", <<>>))
                 ELSE log
    /\ pc' = "finally"
    /\ UNCHANGED <<variant, jobState, packageManagers, determinedStatus, ghEnv, apiJobs,
                   apiCalls, resolverPath, fsProbe, payload, httpCalls, response, thrown,
                   clients, disposed, failed, waits, steps, filteredSteps, analysis, mainVars,
                   workspace, visited>>

\* catch (error) { core.error(...); throw error }
CatchAndRethrow ==
    /\ pc = "caught"
    /\ log' = Append(log, Err("Error during CI end notification", thrown.message))
    /\ pc' = "finally"
    /\ UNCHANGED <<variant, jobState, packageManagers, determinedStatus, ghEnv, apiJobs,
                   apiCalls, resolverPath, fsProbe, payload, httpCalls, response, thrown,
                   clients, disposed, summaryCalls, failed, waits, steps,
                   filteredSteps, analysis, mainVars, workspace, visited>>

\* finally { httpClient.dispose() }
DisposeClient ==
    /\ pc = "finally"
    /\ disposed' = disposed + 1
    /\ pc' = "top"
    /\ UNCHANGED <<variant, jobState, packageManagers, determinedStatus, ghEnv, apiJobs,
                   apiCalls, resolverPath, fsProbe, payload, httpCalls, response, thrown,
                   clients, summaryCalls, log, failed, waits, steps,
                   filteredSteps, analysis, mainVars, workspace, visited>>

\* variant of setFailedMessage that replaces a non-Error value by a generic text
setFailedMessageGeneric(v, e) ==
    IF e.kind # "Error" THEN <<"An unknown error occurred">>
    ELSE IF v = "handoff" THEN <<"CI end notification failed: ">> \o e.message
    ELSE e.message

\* the message the top-level handler passes to core.setFailed
setFailedMessage(v, e) ==
    IF v = "handoff" THEN <<"CI end notification failed: ">> \o e.message ELSE e.message

\* variant of afterRunPost that never validates the release
afterRunPostNoValidation(v) == "done"

\* where runPostScriptLogic goes once runPost has returned normally
afterRunPost(v) == IF v = "sentinel" THEN "validate" ELSE "done"

\* variant of TopLevel without a handler: a thrown value leaves the entry point
TopLevelRethrows ==
    /\ pc = "top"
    /\ pc' = IF thrown.kind # "none" THEN "rejected" ELSE afterRunPost(variant)
    /\ UNCHANGED <<variant, jobState, packageManagers, determinedStatus, ghEnv, apiJobs,
                   apiCalls, resolverPath, fsProbe, payload, httpCalls, response, thrown,
                   clients, disposed, summaryCalls, log, failed, waits, steps,
                   filteredSteps, analysis, mainVars, workspace, visited>>

\* runPostScriptLogic (handoff: runPost().catch): setFailed on a thrown value
TopLevel ==
    /\ pc = "top"
    /\ IF thrown.kind # "none"
       THEN /\ failed' = Append(failed, setFailedMessage(variant, thrown))
            /\ pc' = "done"
       ELSE /\ pc' = afterRunPost(variant)
            /\ UNCHANGED failed
    /\ UNCHANGED <<variant, jobState, packageManagers, determinedStatus, ghEnv, apiJobs,
                   apiCalls, resolverPath, fsProbe, payload, httpCalls, response, thrown,
                   clients, disposed, summaryCalls, log, waits, steps,
                   filteredSteps, analysis, mainVars, workspace, visited>>

\* validateReleasePublication: one turn of the progress loop
ValidateWait ==
    /\ pc = "validate"
    /\ waits < Updates
    /\ waits' = waits + 1
    /\ UNCHANGED <<variant, jobState, pc, packageManagers, determinedStatus, ghEnv, apiJobs,
                   apiCalls, resolverPath, fsProbe, payload, httpCalls, response, thrown,
                   clients, disposed, summaryCalls, log, failed, steps,
                   filteredSteps, analysis, mainVars, workspace, visited>>

\* validateReleasePublication: the loop is over, the completion message is logged
ValidateComplete ==
    /\ pc = "validate"
    /\ waits >= Updates
    /\ log' = Append(log, Info("Release validation completed", <<>>))
    /\ pc' = "done"
    /\ UNCHANGED <<variant, jobState, packageManagers, determinedStatus, ghEnv, apiJobs,
                   apiCalls, resolverPath, fsProbe, payload, httpCalls, response, thrown,
                   clients, disposed, summaryCalls, failed, waits, steps,
                   filteredSteps, analysis, mainVars, workspace, visited>>

Next ==
    \/ GetState
    \/ GetStateHandoff
    \/ ParsePackageManagers
    \/ CheckHandoff
    \/ ResolveSentinel
    \/ ResolveHardcoded
    \/ GetGitHubEnvironment
    \/ GetWorkflowRun
    \/ ListJobsForWorkflowRun
    \/ BuildPayload
    \/ SendNotification
    \/ HandleResponse
    \/ CreateJobSummary
    \/ CatchAndRethrow
    \/ DisposeClient
    \/ TopLevel
    \/ ValidateWait
    \/ ValidateComplete

Spec == Init /\ [][Next]_vars

\* the post phase on the event loop: an enabled step (a resolved await, a due timer) is
\* eventually run
SpecLive == Init /\ [][Next]_vars /\ WF_vars(Next)

----------------------------------------------------------------------------
(* The post phase over every cached package-manager state of bounded length *)

MaxRawLen == 3

CachedVariants == {"sentinel", "hardcoded", "handoff"}

InitCached ==
    /\ variant \in CachedVariants
    /\ \E raw \in SeqsUpTo(Tokens, MaxRawLen) :
          jobState = [url |-> "https://fly.example.com", token |-> "test-access-token",
                      pm |-> raw, status |-> ""]
    /\ pc = "start"
    /\ InitLocals
    /\ steps = <<>>
    /\ analysis = "none"
    /\ MainIdle

NextCached ==
    \/ GetState
    \/ GetStateHandoff
    \/ ParsePackageManagers
    \/ CheckHandoff
    \/ ResolveSentinel
    \/ ResolveHardcoded
    \/ BuildPayload
    \/ SendNotification
    \/ HandleResponse
    \/ CreateJobSummary
    \/ CatchAndRethrow
    \/ DisposeClient
    \/ TopLevel
    \/ ValidateWait
    \/ ValidateComplete

SpecCached == InitCached /\ [][NextCached]_vars

----------------------------------------------------------------------------
(* analyzeJobSteps as a function of the step list *)

InitSteps ==
    /\ variant = "introspect"
    /\ jobState = [url |-> "", token |-> "", pm |-> <<>>, status |-> ""]
    /\ pc = "steps"
    /\ InitLocals
    /\ steps \in SeqsUpTo(StepKinds, MaxSteps)
    /\ analysis = "none"
    /\ MainIdle

AnalyzeJobSteps ==
    /\ pc = "steps"
    /\ filteredSteps' = filterMainSteps(steps)
    /\ analysis' = analyzeJobSteps(steps)
    /\ pc' = "analyzed"
    /\ UNCHANGED <<variant, jobState, packageManagers, determinedStatus, ghEnv, apiJobs,
                   apiCalls, resolverPath, fsProbe, payload, httpCalls, response, thrown,
                   clients, disposed, summaryCalls, log, failed, waits, steps, mainVars,
                   workspace, visited>>

\* filterMainSteps applied to the step list
FilterMainSteps ==
    /\ pc = "steps"
    /\ filteredSteps' = filterMainSteps(steps)
    /\ pc' = "filtered"
    /\ UNCHANGED <<variant, jobState, packageManagers, determinedStatus, ghEnv, apiJobs,
                   apiCalls, resolverPath, fsProbe, payload, httpCalls, response, thrown,
                   clients, disposed, summaryCalls, log, failed, waits, steps, analysis,
                   mainVars, workspace, visited>>

\* filterMainSteps applied to its own result
FilterMainStepsAgain ==
    /\ pc = "filtered"
    /\ filteredSteps' = filterMainSteps(filteredSteps)
    /\ pc' = "refiltered"
    /\ UNCHANGED <<variant, jobState, packageManagers, determinedStatus, ghEnv, apiJobs,
                   apiCalls, resolverPath, fsProbe, payload, httpCalls, response, thrown,
                   clients, disposed, summaryCalls, log, failed, waits, steps, analysis,
                   mainVars, workspace, visited>>

NextSteps ==
    \/ AnalyzeJobSteps
    \/ FilterMainSteps
    \/ FilterMainStepsAgain

SpecSteps == InitSteps /\ [][NextSteps]_vars

----------------------------------------------------------------------------
(* The main phase: run() *)

EmptyJobState == [url |-> "", token |-> "", pm |-> <<>>, status |-> ""]

\* the post revisions that read the state keys a revision of run() writes
PostVariantsOf(mv) ==
    IF mv = "fly" THEN {"sentinel", "introspect"} ELSE {"hardcoded", "handoff"}

InitJob ==
    /\ mainVariant \in MainVariants
    /\ oidcVariant \in OidcVariants
    /\ mpc = "start"
    /\ MainLocals
    /\ variant \in PostVariantsOf(mainVariant)
    /\ jobState = EmptyJobState
    /\ pc = "idle"
    /\ InitLocals
    /\ steps = <<>>
    /\ analysis = "none"

Error(message) == [kind |-> "Error", message |-> message]

\* core.getInput("url", {required: true}): throws when the input is empty
ReadInputs ==
    /\ mpc = "start"
    /\ \E u \in InputUrls :
          /\ inputUrl' = u
          /\ IF u = ""
             THEN /\ mainThrown' = Error(<<"Input required and not supplied: url">>)
                  /\ mpc' = "catch"
             ELSE /\ mpc' = "getIDToken"
                  /\ UNCHANGED mainThrown
    /\ UNCHANGED <<variant, jobState, postLocals, mainVariant, oidcVariant, idToken, user,
                   exchange, accessToken, detected, mainFailed, trace, workspace, visited>>

\* what core.getIDToken does: hand out a token (possibly empty) or throw
HostOutcomes ==
    { [token |-> t, error |-> NoThrown] : t \in IdTokens \cup {EmptyIdToken} }
        \cup { [token |-> NoIdToken, error |-> e] : e \in HostErrors }

\* authenticateOidc: getIDToken (which catches and warns), the !idToken test, setSecret
ObtainIDToken ==
    /\ mpc = "getIDToken"
    /\ \E out \in HostOutcomes :
          LET fetched == Append(trace, Ev("getIDToken", <<>>))
              warned  == IF out.error = NoThrown THEN fetched
                         ELSE Append(fetched, Ev("warning", <<"Failed to get OIDC token: ">>
                                                              \o out.error.message))
          IN  /\ idToken' = out.token
              /\ IF idTokenMissing(out.token)
                 THEN /\ mainThrown' = Error(<<"Failed to obtain OIDC token">>)
                      /\ trace' = warned
                      /\ mpc' = "catch"
                 ELSE /\ trace' = IF oidcVariant = "rawPost"
                                  THEN Append(warned, Ev("setSecret", <<"<idToken>">>))
                                  ELSE warned
                      /\ mpc' = "extract"
                      /\ UNCHANGED mainThrown
    /\ UNCHANGED <<variant, jobState, postLocals, mainVariant, oidcVariant, inputUrl, user,
                   exchange, accessToken, detected, mainFailed, workspace, visited>>

\* authenticateOidc: extractUserFromToken and the !user test
ExtractUser ==
    /\ mpc = "extract"
    /\ LET r == extractUserFromToken(idToken)
           logged == IF r.warned
                     THEN Append(trace, Ev("warning", <<"Failed to parse user from OIDC token">>))
                     ELSE trace
       IN  /\ user' = r.user
           /\ trace' = logged
           /\ IF userMissing(r.user)
              THEN /\ mainThrown' = Error(<<"Failed to extract user from OIDC token">>)
                   /\ mpc' = "catch"
              ELSE /\ mpc' = "exchange"
                   /\ UNCHANGED mainThrown
    /\ UNCHANGED <<variant, jobState, postLocals, mainVariant, oidcVariant, inputUrl, idToken,
                   exchange, accessToken, detected, mainFailed, workspace, visited>>

\* the log lines before the request: rawPost prints the URL and the masked payload
exchangeAnnouncement(ov, url) ==
    IF ov = "rawPost"
    THEN << Ev("debug", <<"Exchanging OIDC token at ", url, tokenExchangePath(ov)>>),
            Ev("info", <<"Token exchange URL: ", url, tokenExchangePath(ov)>>),
            Ev("info", <<"Token exchange payload: ", "subject_token", "***">>) >>
    ELSE << Ev("debug", <<"Exchanging OIDC token at ", url, tokenExchangePath(ov)>>) >>

\* authenticateOidc: new HttpClient, the POST of the identity token
ExchangeToken ==
    /\ mpc = "exchange"
    /\ LET sent == Append(trace \o exchangeAnnouncement(oidcVariant, inputUrl),
                          Ev("post", <<inputUrl, tokenExchangePath(oidcVariant),
                                       "subject_token", "<idToken>">>))
       IN  /\ trace' = sent
           /\ \/ \E resp \in ExchangeResponses :
                    LET out == IF oidcVariant = "postJson" THEN postJson(resp)
                               ELSE rawPost(resp)
                    IN  /\ exchange' = out
                        /\ IF out.kind = "rejected"
                           THEN /\ mainThrown' = out.error
                                /\ mpc' = "catch"
                           ELSE /\ mpc' = "checkExchange"
                                /\ UNCHANGED mainThrown
              \/ \E e \in ExchangeErrors :
                    /\ exchange' = [NoExchange EXCEPT !.kind = "threw", !.error = e]
                    /\ mainThrown' = e
                    /\ mpc' = "catch"
    /\ UNCHANGED <<variant, jobState, postLocals, mainVariant, oidcVariant, inputUrl, idToken,
                   user, accessToken, detected, mainFailed, workspace, visited>>

\* JSON.stringify(maskedResponse)
maskedResponse(ex) ==
    IF ex.result.access_token # "" THEN "{\"access_token\":\"***\"}"
    ELSE IF ParseBody(ex.body).ok /\ ParseBody(ex.body).val.t # "null" THEN ex.body
    ELSE "{}"

\* what rawPost registers and logs once the body is read
exchangeLog(ov, ex) ==
    IF ov = "rawPost"
    THEN (IF ex.result.access_token # ""
          THEN << Ev("setSecret", <<ex.result.access_token>>) >> ELSE << >>)
         \o << Ev("info", <<"Token exchange response headers">>) >>
         \o (IF ex.code = 200
             THEN << Ev("info", <<"Token exchange succeeded, body: ", maskedResponse(ex)>>) >>
             ELSE << Ev("error", <<"Token exchange failed ", CodeStr(ex.code), ", body: ",
                                   maskedResponse(ex)>>) >>)
    ELSE << >>

\* authenticateOidc: the status test and the access_token test on the response
CheckExchange ==
    /\ mpc = "checkExchange"
    /\ LET r == exchangeResult(oidcVariant, exchange)
       IN  /\ trace' = trace \o exchangeLog(oidcVariant, exchange)
           /\ IF r.ok
              THEN /\ accessToken' = r.accessToken
                   /\ mpc' = "save"
                   /\ UNCHANGED mainThrown
              ELSE /\ mainThrown' = Error(r.message)
                   /\ mpc' = "catch"
                   /\ UNCHANGED accessToken
    /\ UNCHANGED <<variant, jobState, postLocals, mainVariant, oidcVariant, inputUrl, idToken,
                   user, exchange, detected, mainFailed, workspace, visited>>

\* variant of afterSave that saves the credentials a second time
afterSaveAgain(mv) == "save"

\* where run() goes once URL and token are saved
afterSave(mv) == IF mv \in DetectingVariants THEN "detect" ELSE "cli"

\* variant of SaveCredentials that saves the URL and leaves the credential for later
SaveCredentialsUrlOnly ==
    /\ mpc = "save"
    /\ trace' = trace \o << Ev("setSecret", <<accessToken>>),
                            Ev("saveState", <<"url", inputUrl>>) >>
    /\ jobState' = [jobState EXCEPT !.url = inputUrl]
    /\ mpc' = afterSave(mainVariant)
    /\ UNCHANGED <<variant, postLocals, mainVariant, oidcVariant, inputUrl, idToken, user,
                   exchange, accessToken, detected, mainThrown, mainFailed,
                   workspace, visited>>

\* run: setSecret(accessToken); saveState(url); saveState(access token)
SaveCredentials ==
    /\ mpc = "save"
    /\ trace' = trace \o << Ev("setSecret", <<accessToken>>),
                            Ev("saveState", <<"url", inputUrl>>),
                            Ev("saveState", <<"access-token", accessToken>>) >>
    /\ jobState' = [jobState EXCEPT !.url = inputUrl, !.token = accessToken]
    /\ mpc' = afterSave(mainVariant)
    /\ UNCHANGED <<variant, postLocals, mainVariant, oidcVariant, inputUrl, idToken, user,
                   exchange, accessToken, detected, mainThrown, mainFailed,
                   workspace, visited>>

\* run: detectPackageManagers(workspace) and saveState(JSON.stringify(detected))
DetectPackageManagers ==
    /\ mpc = "detect"
    /\ \E d \in DetectedLists :
          /\ detected' = d
          /\ jobState' = [jobState EXCEPT !.pm = Stringify(d)]
          /\ trace' = Append(trace, Ev("saveState", <<"package-managers">> \o Stringify(d)))
    /\ mpc' = "cli"
    /\ UNCHANGED <<variant, postLocals, mainVariant, oidcVariant, inputUrl, idToken, user,
                   exchange, accessToken, mainThrown, mainFailed, workspace, visited>>

\* where run() goes once the setup command has exited with 0
afterSetup(mv) == IF mv = "fly" THEN "summary" ELSE "done"

\* run: resolve the CLI binary, exec `setup`, test the exit code
RunSetup ==
    /\ mpc = "cli"
    /\ \E o \in CliOutcomes :
          CASE o.kind = "missing" ->
                 /\ mainThrown' = Error(binaryMissingMessage(mainVariant))
                 /\ mpc' = "catch"
                 /\ UNCHANGED trace
            [] o.kind = "throws" ->
                 /\ mainThrown' = o.error
                 /\ mpc' = "catch"
                 /\ trace' = Append(trace, Ev("exec", <<"setup">>))
            [] o.kind = "exit" /\ o.code # 0 ->
                 /\ mainThrown' = Error(setupFailedMessage(mainVariant))
                 /\ mpc' = "catch"
                 /\ trace' = Append(trace, Ev("exec", <<"setup">>))
            [] o.kind = "exit" /\ o.code = 0 ->
                 /\ mpc' = afterSetup(mainVariant)
                 /\ trace' = Append(trace, Ev("exec", <<"setup">>))
                 /\ UNCHANGED mainThrown
    /\ UNCHANGED <<variant, jobState, postLocals, mainVariant, oidcVariant, inputUrl, idToken,
                   user, exchange, accessToken, detected, mainFailed, workspace, visited>>

\* run of part_002: the job summary, whose failure is caught and only logged
WriteSetupSummary ==
    /\ mpc = "summary"
    /\ \E fails \in BOOLEAN :
          trace' = IF fails
                   THEN trace \o << Ev("summary", <<>>),
                                    Ev("info", <<"Job summary could not be written">>) >>
                   ELSE Append(trace, Ev("summary", <<>>))
    /\ mpc' = "done"
    /\ UNCHANGED <<variant, jobState, postLocals, mainVariant, oidcVariant, inputUrl, idToken,
                   user, exchange, accessToken, detected, mainThrown, mainFailed,
                   workspace, visited>>

\* run: catch (error) { setFailed(...) }
MainCatch ==
    /\ mpc = "catch"
    /\ mainFailed' = Append(mainFailed, mainFailedMessage(mainThrown))
    /\ trace' = Append(trace, Ev("setFailed", mainFailedMessage(mainThrown)))
    /\ mpc' = "done"
    /\ UNCHANGED <<variant, jobState, postLocals, mainVariant, oidcVariant, inputUrl, idToken,
                   user, exchange, accessToken, detected, mainThrown, workspace, visited>>

NextMain ==
    \/ ReadInputs
    \/ ObtainIDToken
    \/ ExtractUser
    \/ ExchangeToken
    \/ CheckExchange
    \/ SaveCredentials
    \/ DetectPackageManagers
    \/ RunSetup
    \/ WriteSetupSummary
    \/ MainCatch

SpecMain == InitJob /\ [][NextMain]_vars

\* the runner starts the post step once the main step is over, failed or not
StartPost ==
    /\ mpc = "done"
    /\ pc = "idle"
    /\ pc' = "start"
    /\ UNCHANGED <<variant, jobState, packageManagers, determinedStatus, ghEnv, apiJobs,
                   apiCalls, resolverPath, fsProbe, payload, httpCalls, response, thrown,
                   clients, disposed, summaryCalls, log, failed, waits, steps,
                   filteredSteps, analysis,
                   mainVars, workspace, visited>>

NextJob ==
    \/ NextMain
    \/ StartPost
    \/ Next

SpecJob == InitJob /\ [][NextJob]_vars

----------------------------------------------------------------------------
(* extractUserFromToken as a function of the token *)

ClaimKinds == {"garbage", "nosub", "sub"}

MaxSegments == 4

\* tokens of 1 to MaxSegments segments; only a "sub" token carries a (possibly empty) sub
SubjectTokens ==
    { Jwt(n, c, <<>>) : n \in 1..MaxSegments, c \in ClaimKinds }
        \cup { Jwt(n, "sub", sub) : n \in 1..MaxSegments, sub \in SeqsUpTo(Atoms, MaxSubLen) }

InitSubject ==
    /\ mainVariant = "fly"
    /\ oidcVariant \in OidcVariants
    /\ mpc = "subject"
    /\ inputUrl = ""
    /\ idToken \in SubjectTokens
    /\ user = NoUser
    /\ exchange = NoExchange
    /\ accessToken = ""
    /\ detected = <<>>
    /\ mainThrown = NoThrown
    /\ mainFailed = <<>>
    /\ trace = <<>>
    /\ workspace = NoWorkspace
    /\ visited = {}
    /\ variant = "sentinel"
    /\ jobState = EmptyJobState
    /\ pc = "idle"
    /\ InitLocals
    /\ steps = <<>>
    /\ analysis = "none"

ExtractSubject ==
    /\ mpc = "subject"
    /\ user' = extractUserFromToken(idToken).user
    /\ trace' = IF extractUserFromToken(idToken).warned
                THEN Append(trace, Ev("warning", <<"Failed to parse user from OIDC token">>))
                ELSE trace
    /\ mpc' = "extracted"
    /\ UNCHANGED <<variant, jobState, postLocals, mainVariant, oidcVariant, inputUrl, idToken,
                   exchange, accessToken, detected, mainThrown, mainFailed,
                   workspace, visited>>

NextSubject == ExtractSubject

SpecSubject == InitSubject /\ [][NextSubject]_vars

----------------------------------------------------------------------------
(* detectPackageManagers as a function of the directory tree *)

InitDetect ==
    /\ mainVariant = "fly"
    /\ oidcVariant = "rawPost"
    /\ mpc = "workspace"
    /\ inputUrl = ""
    /\ idToken = NoIdToken
    /\ user = NoUser
    /\ exchange = NoExchange
    /\ accessToken = ""
    /\ detected = <<>>
    /\ mainThrown = NoThrown
    /\ mainFailed = <<>>
    /\ trace = <<>>
    /\ workspace \in Workspaces
    /\ visited = {}
    /\ variant = "sentinel"
    /\ jobState = EmptyJobState
    /\ pc = "idle"
    /\ InitLocals
    /\ steps = <<>>
    /\ analysis = "none"

DetectIn ==
    /\ mpc = "workspace"
    /\ detected' = detectPackageManagers(workspace).found
    /\ visited' = detectPackageManagers(workspace).visited
    /\ mpc' = "detected"
    /\ UNCHANGED <<variant, jobState, postLocals, mainVariant, oidcVariant, inputUrl, idToken,
                   user, exchange, accessToken, mainThrown, mainFailed, trace, workspace>>

NextDetect == DetectIn

SpecDetect == InitDetect /\ [][NextDetect]_vars

----------------------------------------------------------------------------
(* Properties of the post phase *)

Finished == pc = "done"

\* C1: with an empty registry URL or an empty access credential in the job state,
\* runPost issues no HTTP request (and creates no client), nothing is thrown out of
\* it, and the step is never marked failed.
C1_SkipWithoutCredentials ==
    (Falsy(jobState.url) \/ Falsy(jobState.token)) =>
        /\ httpCalls = <<>>
        /\ clients = 0
        /\ thrown.kind = "none"
        /\ failed = <<>>

\* a finished run whose URL was present but whose credential was empty
C1_Witness ==
    /\ Finished
    /\ ~Falsy(jobState.url)
    /\ Falsy(jobState.token)
    /\ httpCalls = <<>>

\* C2: a run with non-empty URL and credential attempts the ci/end POST exactly
\* once: there are never two POSTs, and a finished run has made exactly one, also
\* after a non-200 response or a transport exception.
C2_ExactlyOnePost ==
    /\ Len(httpCalls) <= 1
    /\ (Finished /\ ~Falsy(jobState.url) /\ ~Falsy(jobState.token)) => Len(httpCalls) = 1
    /\ (response # NoResponse \/ thrown # NoThrown) => Len(httpCalls) = 1

\* a finished run whose single POST was answered 500
C2_Witness ==
    /\ Finished
    /\ response.code = 500
    /\ Len(httpCalls) = 1
    /\ failed # <<>>

\* C3: no ci/end POST exists while the job status is still being determined, and
\* the status of every sent payload is the verdict the resolver returned.
C3_PostAfterVerdict ==
    /\ pc \in {"start", "parse", "check", "resolve", "getRun", "listJobs", "build"}
          => httpCalls = <<>>
    /\ \A i \in 1..Len(httpCalls) :
          /\ resolverPath # "none"
          /\ httpCalls[i].body.status = determinedStatus

\* a POST sent by the introspecting revision after a verdict of failure
C3_Witness ==
    /\ variant = "introspect"
    /\ Len(httpCalls) = 1
    /\ resolverPath = "steps"
    /\ determinedStatus = "failure"
    /\ httpCalls[1].body.status = "failure"

----------------------------------------------------------------------------
(* Properties of the job-status resolvers *)

\* a step whose name starts with "post " in any mix of upper and lower case
PostPrefixed(step) ==
    /\ step.hasName
    /\ Len(step.name) >= 5
    /\ step.name[1] \in {"p", "P"}
    /\ step.name[2] \in {"o", "O"}
    /\ step.name[3] \in {"s", "S"}
    /\ step.name[4] \in {"t", "T"}
    /\ step.name[5] = " "

\* some step of the list is not post-prefixed and concluded failure or cancelled
MainStepFailed(stepList) ==
    \E i \in 1..Len(stepList) :
        /\ ~PostPrefixed(stepList[i])
        /\ stepList[i].conclusion \in {"failure", "cancelled"}

\* C4: analyzeJobSteps returns failure exactly when some step that is not
\* post-prefixed concluded failure or cancelled, and success for every other list.
C4_AnalyzeJobSteps ==
    pc = "analyzed" =>
        /\ analysis \in {"success", "failure"}
        /\ analysis = "failure" <=> MainStepFailed(steps)

\* success for a list with a failed post-prefixed step and a timed-out main step
C4_Witness ==
    /\ pc = "analyzed"
    /\ analysis = "success"
    /\ \E i \in 1..Len(steps) : PostPrefixed(steps[i]) /\ steps[i].conclusion = "failure"
    /\ \E i \in 1..Len(steps) : ~PostPrefixed(steps[i]) /\ steps[i].conclusion = "timed_out"

\* determineJobStatus (introspect) has just returned after receiving the job list
JobsListed ==
    /\ pc = "build"
    /\ variant = "introspect"
    /\ Len(apiCalls) = 2
    /\ resolverPath # "apiError"

\* positions of the jobs of the response that carry the current job name
Matching == {i \in 1..Len(apiJobs) : apiJobs[i].name = ghEnv.jobName}

\* the job jobs.find returns
CurrentJob == apiJobs[CHOOSE i \in Matching : \A k \in Matching : i <= k]

FailedConclusions == {"failure", "cancelled", "timed_out"}

\* C5 as stated: a matching job without a step list always resolves to failure.
C5_Original ==
    (JobsListed /\ Matching # {} /\ ~CurrentJob.hasSteps) => determinedStatus = "failure"

\* C5, amended: for a matching job without a step list the resolver returns
\* failure exactly when the job's own conclusion is failure, cancelled or
\* timed_out, and success otherwise.
C5_NoStepList ==
    (JobsListed /\ Matching # {} /\ ~CurrentJob.hasSteps) =>
        (determinedStatus = "failure" <=> CurrentJob.conclusion \in FailedConclusions)

\* a matching job without steps and without a conclusion resolves to success
C5_Witness ==
    /\ JobsListed
    /\ Matching # {}
    /\ ~CurrentJob.hasSteps
    /\ CurrentJob.conclusion = Null
    /\ determinedStatus = "success"

\* C6 as stated: a matching job whose own conclusion is failure, cancelled or
\* timed_out always resolves to failure, whatever its step list.
C6_Original ==
    (JobsListed /\ Matching # {} /\ CurrentJob.conclusion \in FailedConclusions) =>
        determinedStatus = "failure"

\* C6, amended: a matching job whose conclusion is failure, cancelled or timed_out
\* resolves to failure when it has no step list or an empty one; with a non-empty
\* step list the steps alone decide, whatever the job's conclusion.
C6_JobConclusion ==
    (JobsListed /\ Matching # {}) =>
        /\ (CurrentJob.conclusion \in FailedConclusions
              /\ (~CurrentJob.hasSteps \/ CurrentJob.steps = <<>>))
           => determinedStatus = "failure"
        /\ (CurrentJob.hasSteps /\ CurrentJob.steps # <<>>)
           => (determinedStatus = "failure" <=> MainStepFailed(CurrentJob.steps))

\* a timed-out job with an empty step array resolves to failure
C6_Witness ==
    /\ JobsListed
    /\ Matching # {}
    /\ CurrentJob.hasSteps
    /\ CurrentJob.steps = <<>>
    /\ CurrentJob.conclusion = "timed_out"
    /\ determinedStatus = "failure"

\* C7: with the run id, the repository or the API token missing, the resolver
\* returns success and no GitHub API call is ever made in that run.
C7_MissingEnvironment ==
    /\ (pc = "build" /\ variant = "introspect"
          /\ (Falsy(ghEnv.runId) \/ Falsy(ghEnv.repository) \/ Falsy(ghEnv.token)))
       => (determinedStatus = "success" /\ apiCalls = <<>>)
    /\ resolverPath = "envMissing" => apiCalls = <<>>

\* the resolver returned with run id and repository present but no token
C7_Witness ==
    /\ pc = "build"
    /\ variant = "introspect"
    /\ ~Falsy(ghEnv.runId)
    /\ ~Falsy(ghEnv.repository)
    /\ Falsy(ghEnv.token)
    /\ determinedStatus = "success"

\* C8: an exception from a GitHub API call, or a response without a job of the
\* current name, makes the resolver return success without raising, and the run
\* still sends its one notification, with status success.
C8_FailOpen ==
    /\ resolverPath = "apiError" => determinedStatus = "success"
    /\ (JobsListed /\ Matching = {}) =>
          (determinedStatus = "success" /\ resolverPath = "notFound")
    /\ (resolverPath \in {"apiError", "notFound"} /\ pc \in {"build", "send"}) =>
          thrown = NoThrown
    /\ (resolverPath \in {"apiError", "notFound"} /\ Finished) =>
          (Len(httpCalls) = 1 /\ httpCalls[1].body.status = "success")

\* a finished run whose API call threw and whose notification was sent
C8_Witness ==
    /\ Finished
    /\ resolverPath = "apiError"
    /\ Len(apiCalls) = 1
    /\ Len(httpCalls) = 1

\* C9: the sentinel resolver returns success exactly when the probe does not
\* throw and .fly-job-status exists under GITHUB_WORKSPACE, or under the current
\* directory when GITHUB_WORKSPACE is unset or empty; otherwise failure.
C9_SentinelFile ==
    (pc = "build" /\ variant = "sentinel") =>
        LET root == IF fsProbe.workspace \in {Undefined, ""} THEN Cwd
                    ELSE fsProbe.workspace
        IN  /\ determinedStatus \in {"success", "failure"}
            /\ determinedStatus = "success" <=>
                  (~fsProbe.throws /\ <<root, ".fly-job-status">> \in fsProbe.files)

\* success through the fallback to the current directory
C9_Witness ==
    /\ pc = "build"
    /\ variant = "sentinel"
    /\ fsProbe.workspace = Undefined
    /\ fsProbe.files = {<<Cwd, ".fly-job-status">>}
    /\ determinedStatus = "success"

\* the cached package-manager state is non-empty and JSON.parse rejects it
CachedStateMalformed == jobState.pm # <<>> /\ ~ParseJSON(jobState.pm).ok

\* C10: when the cached package-manager state is not parseable JSON, a finished
\* run with URL and credential has logged a warning carrying the raw state and has
\* sent its notification with the status key only.
C10_MalformedCachedState ==
    (Finished /\ CachedStateMalformed /\ ~Falsy(jobState.url) /\ ~Falsy(jobState.token)) =>
        /\ \E i \in 1..Len(log) : log[i].level = "warning" /\ log[i].arg = jobState.pm
        /\ Len(httpCalls) = 1
        /\ ~httpCalls[1].body.hasPm
        /\ httpCalls[1].body.pm = JsUndefined

\* the sentinel revision finished after sending with an unterminated array cached
C10_Witness ==
    /\ Finished
    /\ variant = "sentinel"
    /\ jobState.pm = <<"[", "\"npm\"">>
    /\ Len(httpCalls) = 1
    /\ response.code = 200

----------------------------------------------------------------------------
(* Failure reporting of the post phase *)

Contains(msg, part) == \E i \in DOMAIN msg : msg[i] = part

EndsWith(msg, tail) ==
    /\ Len(msg) >= Len(tail)
    /\ SubSeq(msg, Len(msg) - Len(tail) + 1, Len(msg)) = tail

NonOkResponse == response # NoResponse /\ response.code # 200

\* C13: once the POST has returned a status other than 200, runPost throws an Error
\* whose message contains the status code and the response body verbatim, and the
\* finished post phase is marked failed, once, with that message.
C13_NonOkResponseFails ==
    /\ (NonOkResponse /\ pc # "handle") =>
          /\ thrown.kind = "Error"
          /\ Contains(thrown.message, CodeStr(response.code))
          /\ Contains(thrown.message, response.body)
    /\ (NonOkResponse /\ Finished) =>
          /\ Len(failed) = 1
          /\ EndsWith(failed[1], thrown.message)
          /\ (variant # "handoff" => failed[1] = thrown.message)

\* a finished run whose POST was answered 500 with a body
C13_Witness ==
    /\ Finished
    /\ response = [code |-> 500, body |-> "Internal server error"]
    /\ Len(failed) = 1

TransportFailed == thrown # NoThrown /\ response = NoResponse

\* C14: when the POST itself throws, the value that leaves runPost is the very value
\* the client threw (Error or not), and the top-level handler marks the step failed
\* with its message, or with its string form when it is not an Error.
C14_TransportErrorRethrown ==
    /\ TransportFailed => thrown \in TransportErrors /\ Len(httpCalls) = 1
    /\ (TransportFailed /\ Finished) =>
          /\ Len(failed) = 1
          /\ EndsWith(failed[1], thrown.message)
          /\ (variant # "handoff" => failed = <<thrown.message>>)

\* a finished run of runPostScriptLogic whose POST threw a value that is not an Error
C14_Witness ==
    /\ Finished
    /\ variant # "handoff"
    /\ thrown = [kind |-> "string", message |-> <<"Network problem string">>]
    /\ failed = << <<"Network problem string">> >>

\* C16: every HTTP client the end-of-job reporter created has been disposed of by the
\* time the post phase is over, whatever the outcome of the request.
C16_ClientsDisposed == Finished => disposed = clients

\* C17: createJobSummary is called at most once, and only after the POST returned 200
\* for a job whose status is success; never after a non-200 response, a transport
\* failure or a failure status.
C17_SummaryOnlyOnSuccess ==
    /\ summaryCalls <= 1
    /\ (summaryCalls > 0 \/ pc = "summary") =>
          /\ response.code = 200
          /\ determinedStatus = "success"
          /\ thrown = NoThrown
    /\ (Finished /\ (response.code # 200 \/ determinedStatus # "success")) =>
          summaryCalls = 0

\* a finished run that wrote the job summary
C17_Witness == Finished /\ summaryCalls = 1 /\ response.code = 200

----------------------------------------------------------------------------
(* The package_managers field of the notification *)

\* the value is an array without elements, or has no length > 0 at all
EmptyOrAbsent(v) == ~Truthy(v) \/ ~LengthPositive(v)

PayloadWellFormed(body) ==
    IF body.hasPm
    THEN /\ body.pm # JsUndefined
         /\ body.pm.t # "null"
         /\ body.pm # JsArray(<<>>)
         /\ LengthPositive(body.pm)
    ELSE body.pm = JsUndefined

\* C11: whatever the cached package-manager state holds, a payload that is built or
\* sent either has no package_managers key or carries a value of positive length
\* (for an array: at least one element); [] is never sent, and the key is left out
\* exactly when the parsed state is empty or absent.
C11_NoEmptyPackageManagers ==
    /\ \A i \in DOMAIN httpCalls : PayloadWellFormed(httpCalls[i].body)
    /\ payload # NoPayload =>
          /\ PayloadWellFormed(payload)
          /\ payload.hasPm <=> ~EmptyOrAbsent(packageManagers)

\* a request went out without the key although the cached state parsed, to []
C11_Witness ==
    /\ jobState.pm = <<"[", "]">>
    /\ Len(httpCalls) = 1
    /\ ~httpCalls[1].body.hasPm
    /\ packageManagers = JsArray(<<>>)

----------------------------------------------------------------------------
(* Properties of the two phases together *)

\* C12: when the main phase detected a non-empty list of package managers and saved its
\* JSON text in the job state, every payload the post phase sends carries
\* package_managers as an array of exactly those strings (same elements, same order).
C12_RoundTrip ==
    (detected # <<>> /\ httpCalls # <<>>) =>
        \A i \in DOMAIN httpCalls :
            LET body == httpCalls[i].body
            IN  /\ body.hasPm
                /\ body.pm.t = "array"
                /\ Len(body.pm.items) = Len(detected)
                /\ \A k \in DOMAIN detected :
                      body.pm.items[k] = [t |-> "string", s |-> detected[k]]
                /\ {body.pm.items[k].s : k \in DOMAIN body.pm.items}
                      = {detected[k] : k \in DOMAIN detected}

\* the list ["npm","maven"] went through the job state into a sent payload
C12_Witness ==
    /\ detected = <<"npm", "maven">>
    /\ Len(httpCalls) = 1
    /\ httpCalls[1].body.hasPm
    /\ Len(httpCalls[1].body.pm.items) = 2

----------------------------------------------------------------------------
(* Properties of the main phase *)

MainFinished == mpc = "done"

\* C15 as stated: a thrown value that is not an Error is passed to setFailed unchanged.
C15_Original ==
    (MainFinished /\ mainThrown.kind = "string") => mainFailed = <<mainThrown.message>>

\* C15: in the main phase a thrown value that is not an Error reaches the top-level
\* handler, and the step is marked failed, once, with the generic message
\* "An unknown error occurred"; an Error is reported with its own message.
C15_NonErrorGeneric ==
    /\ (MainFinished /\ mainThrown.kind = "string") =>
          mainFailed = << <<"An unknown error occurred">> >>
    /\ (MainFinished /\ mainThrown.kind = "Error") => mainFailed = <<mainThrown.message>>
    /\ (MainFinished /\ mainThrown = NoThrown) => mainFailed = <<>>

\* a finished run in which the HTTP client threw the string "failString"
C15_Witness ==
    /\ MainFinished
    /\ mainThrown = [kind |-> "string", message |-> <<"failString">>]
    /\ Len(mainFailed) = 1

\* the exchange endpoint answered and authenticateOidc has dealt with the answer
ExchangeAnswered == exchange.kind \in {"response", "rejected"} /\ mpc # "checkExchange"

\* authenticateOidc returned a credential
Returned == accessToken # ""

\* status 200 and a body that parses to an object with a non-empty access_token
GoodResponse ==
    /\ exchange.code = 200
    /\ exchange.body \in {BodyToken}

\* the text is part of the message (the empty text is part of every message)
Embeds(msg, text) == text = "" \/ Contains(msg, text)

TokenFetched == \E i \in DOMAIN trace : trace[i].op = "getIDToken"

ExchangePosts == {i \in DOMAIN trace : trace[i].op = "post"}

\* C19: when the CI host throws or hands out an empty value, getIDToken does not raise
\* (a throw is turned into a warning and undefined), authenticateOidc throws
\* "Failed to obtain OIDC token", no exchange request is sent, nothing is saved, and
\* the step ends failed with that message.
C19_NoIdentityToken ==
    (TokenFetched /\ idToken.kind \in {"undefined", "empty"}) =>
        /\ mainThrown = [kind |-> "Error", message |-> <<"Failed to obtain OIDC token">>]
        /\ ExchangePosts = {}
        /\ exchange = NoExchange
        /\ jobState = EmptyJobState
        /\ mpc \in {"catch", "done"}
        /\ MainFinished => mainFailed = << <<"Failed to obtain OIDC token">> >>

\* a finished run in which the host handed out the empty string
C19_Witness ==
    /\ MainFinished
    /\ idToken = EmptyIdToken
    /\ mainFailed = << <<"Failed to obtain OIDC token">> >>

----------------------------------------------------------------------------
(* Properties of extractUserFromToken *)

Extracted == mpc = "extracted"

\* three segments and a decodable claims segment with a non-empty sub
WellFormed == idToken.segments = 3 /\ idToken.claims = "sub" /\ idToken.sub # <<>>

ContainsUsers(sub) ==
    \E i \in 1..(Len(sub) - 2) : sub[i] = "/" /\ sub[i + 1] = "users" /\ sub[i + 2] = "/"

ServiceAccount(sub) == sub # <<>> /\ sub[1] = "jfrt@svc"

NoSpecialPrefix(sub) == ~ContainsUsers(sub) /\ ~ServiceAccount(sub)

\* C20 as stated: such a sub is returned verbatim, even when it contains "/".
C20_Original ==
    (Extracted /\ WellFormed /\ NoSpecialPrefix(idToken.sub)) =>
        user = [defined |-> TRUE, name |-> idToken.sub]

\* C20: for a well-formed three-segment token whose sub matches no special prefix,
\* extractUserFromToken returns sub verbatim when sub holds no "/", and the part of
\* sub after its last "/" when it holds one; it logs no warning.
C20_SubjectAfterLastSlash ==
    (Extracted /\ WellFormed /\ NoSpecialPrefix(idToken.sub)) =>
        /\ user.defined
        /\ trace = <<>>
        /\ \A i \in DOMAIN user.name : user.name[i] # "/"
        /\ \/ user.name = idToken.sub
           \/ \E k \in DOMAIN idToken.sub :
                 /\ idToken.sub[k] = "/"
                 /\ user.name = SubSeq(idToken.sub, k + 1, Len(idToken.sub))

\* the sub name/name, which matches no special prefix, came back as name
C20_Witness ==
    /\ Extracted
    /\ idToken = Jwt(3, "sub", <<"name", "/", "name">>)
    /\ user = [defined |-> TRUE, name |-> <<"name">>]

\* the token has three segments and its claims segment decodes to an object with a sub
Decodable == idToken.segments = 3 /\ idToken.claims = "sub"

\* C21: for every sub that contains /users/, extractUserFromToken returns the part of
\* sub after its final "/" (the empty string when sub ends with "/").
C21_AfterUsers ==
    (Extracted /\ Decodable /\ ContainsUsers(idToken.sub)) =>
        /\ user.defined
        /\ \A i \in DOMAIN user.name : user.name[i] # "/"
        /\ \E k \in DOMAIN idToken.sub :
              /\ idToken.sub[k] = "/"
              /\ user.name = SubSeq(idToken.sub, k + 1, Len(idToken.sub))

\* the sub /users/name came back as name
C21_Witness ==
    /\ Extracted
    /\ idToken = Jwt(3, "sub", <<"/", "users", "/", "name">>)
    /\ user = [defined |-> TRUE, name |-> <<"name">>]

\* the token is one of those the function gives up on
Malformed == idToken.segments # 3 \/ idToken.claims # "sub" \/ idToken.sub = <<>>

WarningLogged == \E i \in DOMAIN trace : trace[i].op = "warning"

\* C22: for a token without exactly three segments, with an undecodable claims segment
\* or without a sub claim, extractUserFromToken returns undefined and logs a warning.
C22_MalformedWarns ==
    (Extracted /\ Malformed) => (~user.defined /\ WarningLogged)

----------------------------------------------------------------------------
(* Properties of filterMainSteps *)

\* positions of the steps that are not post-prefixed
Kept == {i \in DOMAIN steps : ~PostPrefixed(steps[i])}

\* the j-th smallest position in Kept
KeptAt(j) == CHOOSE i \in Kept : Cardinality({k \in Kept : k <= i}) = j

\* C30: filterMainSteps returns, in their original order, exactly the steps whose name
\* does not start with "post " in any letter case; a step without a name is kept; and
\* filtering the result again gives the same list.
C30_FilterMainSteps ==
    pc \in {"analyzed", "filtered", "refiltered"} =>
        /\ Len(filteredSteps) = Cardinality(Kept)
        /\ \A j \in DOMAIN filteredSteps : filteredSteps[j] = steps[KeptAt(j)]
        /\ \A i \in DOMAIN steps :
              ~steps[i].hasName => \E j \in DOMAIN filteredSteps : filteredSteps[j] = steps[i]

\* a nameless step survived, a post-prefixed one before it was dropped, filtered twice
C30_Witness ==
    /\ pc = "refiltered"
    /\ Len(steps) = 2
    /\ PostPrefixed(steps[1])
    /\ ~steps[2].hasName
    /\ filteredSteps = <<steps[2]>>

----------------------------------------------------------------------------
(* Properties of the secrets of the main phase *)

\* the operations that write text a reader of the job log can see
LogOps == {"debug", "info", "warning", "error", "setFailed"}

\* the text holds the access token, alone or inside the response body
CarriesToken(arg) == Contains(arg, "tokval") \/ Contains(arg, BodyToken)

\* core.setSecret was called with the secret before the i-th event
Registered(i, secret) == \E j \in 1..(i - 1) : trace[j] = Ev("setSecret", <<secret>>)

\* C23: every log line, error message and step-failure message of the main phase that
\* contains the access token or the response body holding it is emitted after the
\* token has been registered as a secret.
C23_TokenMaskedBeforeLogs ==
    \A i \in DOMAIN trace :
        (trace[i].op \in LogOps /\ CarriesToken(trace[i].arg)) => Registered(i, "tokval")

\* core.getIDToken handed out a non-empty token
IdTokenReceived == TokenFetched /\ ~idTokenMissing(idToken)

\* C24: as soon as the identity token is received it is registered as a secret, before
\* anything else authenticateOidc does, and no log line contains the token: the logged
\* payload shows subject_token as "***".
C24_IdTokenMasked ==
    IdTokenReceived =>
        /\ \E i \in DOMAIN trace :
              /\ trace[i].op = "getIDToken"
              /\ i + 1 \in DOMAIN trace
              /\ trace[i + 1] = Ev("setSecret", <<"<idToken>">>)
        /\ \A i \in DOMAIN trace :
              trace[i].op \in LogOps => ~Contains(trace[i].arg, "<idToken>")

----------------------------------------------------------------------------
(* Properties of a failed main phase *)

\* authenticateOidc was entered and threw: no credential came back
AuthFailed == TokenFetched /\ mainThrown # NoThrown /\ accessToken = ""

\* C25: when authenticateOidc fails, no saveState call is made and the job state stays
\* empty, the CLI is not run, and the finished step is marked failed, once, with the
\* message of the authentication Error (the generic message for a thrown non-Error).
C25_AuthFailureFrame ==
    AuthFailed =>
        /\ \A i \in DOMAIN trace : trace[i].op \notin {"saveState", "exec", "summary"}
        /\ jobState = EmptyJobState
        /\ detected = <<>>
        /\ mpc \in {"catch", "done"}
        /\ MainFinished =>
              /\ Len(mainFailed) = 1
              /\ mainThrown.kind = "Error" => mainFailed[1] = mainThrown.message
              /\ mainThrown.kind # "Error" => mainFailed[1] = <<"An unknown error occurred">>

\* the exchange was refused with 401 and the step ended failed with nothing saved
C25_Witness ==
    /\ MainFinished
    /\ AuthFailed
    /\ exchange.code = 401
    /\ mainThrown.kind = "Error"
    /\ mainFailed = <<mainThrown.message>>
    /\ jobState = EmptyJobState

----------------------------------------------------------------------------
(* Properties of the whole job *)

\* the main step ended with setFailed
MainRunFailed == MainFinished /\ mainFailed # <<>>

\* run() had saved the URL and the credential before it failed
HandoffWritten == jobState.url # "" /\ jobState.token # ""

HandoffKeys == {"url", "access-token", "package-managers"}

\* the calls of saveState for one key in a trace
Saves(tr, key) == {i \in DOMAIN tr : tr[i].op = "saveState" /\ tr[i].arg[1] = key}

\* C27: in every step of the job, a URL, credential or package-manager list that has
\* been written to the job state keeps its value; the main phase calls saveState at
\* most once for each key; and a step of the post phase changes no key at all.
C27_HandoffImmutable ==
    [][ /\ jobState.url # "" => jobState'.url = jobState.url
        /\ jobState.token # "" => jobState'.token = jobState.token
        /\ jobState.pm # <<>> => jobState'.pm = jobState.pm
        /\ \A key \in HandoffKeys : Cardinality(Saves(trace', key)) <= 1
        /\ pc # "idle" => (jobState' = jobState /\ trace' = trace) ]_vars

\* the post phase has ended and the job state still holds what the main phase saved
C27_Witness ==
    /\ Finished
    /\ httpCalls # <<>>
    /\ accessToken = "tokval"
    /\ jobState.token = accessToken
    /\ jobState.url = inputUrl
    /\ jobState.pm = Stringify(detected)
    /\ \A key \in HandoffKeys : Cardinality(Saves(trace, key)) = 1

----------------------------------------------------------------------------
(* Properties of the failure of the post phase *)

\* the ci/end POST was attempted and was answered with a status other than 200 or threw
DeliveryFailed == Len(httpCalls) = 1 /\ (NonOkResponse \/ TransportFailed)

SummaryFailed == \E i \in DOMAIN log : log[i].text = "Failed to create job summary"

\* C28: the post phase is never marked failed unless the ci/end POST was attempted and
\* was answered with a status other than 200 or threw, and a finished post phase is
\* marked failed, once, exactly in that case; a fallback of the status resolver, an
\* unparsable package-manager state or a failed job-summary write leaves it unfailed.
C28_FailedOnlyByDelivery ==
    /\ Len(failed) <= 1
    /\ failed # <<>> => DeliveryFailed
    /\ Finished => (failed # <<>> <=> DeliveryFailed)

\* a finished, unfailed run in which the status API threw, the package-manager state
\* did not parse and the job summary could not be written
C28_Witness ==
    /\ Finished
    /\ resolverPath = "apiError"
    /\ SummaryFailed
    /\ \E i \in DOMAIN log : log[i].text = "Failed to parse package managers from state"
    /\ response.code = 200
    /\ failed = <<>>

----------------------------------------------------------------------------
(* Properties of the status sent to ci/end *)

\* C29 as stated: every notification carries the status success or failure.
C29_Original ==
    \A i \in DOMAIN httpCalls : httpCalls[i].body.status \in {"success", "failure"}

\* C29: in the revisions that resolve the status themselves (marker file, job steps,
\* fixed value) every notification carries success or failure; the revision that takes
\* the status from the job state sends that value as it is, the JOB_STATUS variable
\* when the state is empty and "unknown" when both are empty, never an empty status.
C29_StatusValues ==
    \A i \in DOMAIN httpCalls :
        LET status == httpCalls[i].body.status
        IN  /\ variant # "handoff" => status \in {"success", "failure"}
            /\ variant = "handoff" =>
                  /\ ~Falsy(status)
                  /\ ~Falsy(jobState.status) => status = jobState.status
                  /\ (status = "unknown" \/ status = "cancelled") => Falsy(jobState.status)

\* the revision without a resolver sent the fallback label
C29_Witness ==
    /\ variant = "handoff"
    /\ Finished
    /\ Len(httpCalls) = 1
    /\ httpCalls[1].body.status = "unknown"
    /\ response.code = 200

----------------------------------------------------------------------------
(* Properties of the environment test of the step-analysis resolver *)

\* run id, repository and token are there, the job name is not
JobNameMissing ==
    /\ variant = "introspect"
    /\ ~Falsy(ghEnv.runId)
    /\ ~Falsy(ghEnv.repository)
    /\ ~Falsy(ghEnv.token)
    /\ Falsy(ghEnv.jobName)

\* C31: with run id, repository and token present and the job name missing, the resolver
\* returns success without a single call of the CI platform API.
C31_JobNameShortCircuit ==
    JobNameMissing =>
        /\ apiCalls = <<>>
        /\ pc = "build" => (determinedStatus = "success" /\ resolverPath = "envMissing")

----------------------------------------------------------------------------
(* Properties of the principal test of authenticateOidc *)

\* extractUserFromToken has run on a received token and gave nothing usable
PrincipalAbsent ==
    /\ IdTokenReceived
    /\ mpc # "extract"
    /\ (~user.defined \/ user.name = <<>>)

----------------------------------------------------------------------------
(* Properties of the order of the main phase *)

\* positions of the events of one operation in the trace
Events(op) == {i \in DOMAIN trace : trace[i].op = op}

\* every event of the first operation has an event of the second one before it
Preceded(later, earlier) ==
    \A i \in Events(later) : \E j \in Events(earlier) : j < i

\* the main phase failed after authenticateOidc had returned a credential
CliStepFailed == mainThrown # NoThrown /\ accessToken # ""

\* C33: in the main phase the identity token is fetched before the exchange POST, the
\* POST comes before the saveState calls and these before the CLI call; the POST is
\* issued at most once and the CLI at most once; the CLI runs only after a 200 answer
\* with a credential; and when the CLI step fails (binary missing, exec throws, exit
\* code not 0) the URL and the credential are in the job state already.
C33_MainOrder ==
    /\ Cardinality(Events("getIDToken")) <= 1
    /\ Cardinality(ExchangePosts) <= 1
    /\ Cardinality(Events("exec")) <= 1
    /\ Preceded("post", "getIDToken")
    /\ Preceded("saveState", "post")
    /\ Preceded("exec", "saveState")
    /\ \A i \in Events("exec") :
          /\ \E j \in 1..(i - 1) : trace[j] = Ev("saveState", <<"url", inputUrl>>)
          /\ \E j \in 1..(i - 1) : trace[j] = Ev("saveState", <<"access-token", accessToken>>)
    /\ Events("exec") # {} => (GoodResponse /\ accessToken = "tokval")
    /\ mpc = "cli" => (GoodResponse /\ accessToken = "tokval")
    /\ CliStepFailed =>
          /\ jobState.url = inputUrl
          /\ jobState.token = accessToken
          /\ jobState.url # ""
          /\ Events("saveState") # {}

\* the binary was missing: the step failed without a CLI call, with the state saved
C33_Witness ==
    /\ MainFinished
    /\ CliStepFailed
    /\ Events("exec") = {}
    /\ jobState.token = "tokval"
    /\ jobState.url = inputUrl
    /\ mainFailed # <<>>

----------------------------------------------------------------------------
(* Properties of the handoff between the phases *)

\* authenticateOidc returned a credential to run()
Authenticated == accessToken # ""

\* C34: when the main phase is over, the URL key and the credential key of the job state
\* are both empty or both non-empty, and they are non-empty exactly when the
\* authentication succeeded; the finished post phase has attempted the ci/end POST, once,
\* exactly when the authentication succeeded, whether or not the CLI setup failed.
C34_BothOrNeither ==
    /\ MainFinished =>
          /\ jobState.url = "" <=> jobState.token = ""
          /\ jobState.token # "" <=> Authenticated
    /\ pc # "idle" => (httpCalls # <<>> => Authenticated)
    /\ (Finished /\ Authenticated) => Len(httpCalls) = 1
    /\ (Finished /\ ~Authenticated) => (httpCalls = <<>> /\ failed = <<>>)

\* authentication succeeded, the CLI exited with a non-zero code, ci/end was answered 200
C34_Witness ==
    /\ Finished
    /\ Authenticated
    /\ Events("exec") # {}
    /\ mainThrown.kind = "Error"
    /\ Len(httpCalls) = 1
    /\ httpCalls[1].authorization = <<"Bearer ", accessToken>>
    /\ response.code = 200

----------------------------------------------------------------------------
(* Properties of the skipped post phase *)

CredentialsAbsent == Falsy(jobState.url) \/ Falsy(jobState.token)

\* C35: with the URL or the credential absent the post phase does nothing but detect
\* it: the cached package-manager list is not parsed, no status resolver runs, no
\* warning or error is logged, and no wait of the release validation is made.
C35_SilentSkip ==
    CredentialsAbsent =>
        /\ pc \notin {"check", "resolve", "build", "validate"}
        /\ packageManagers = JsUndefined
        /\ resolverPath \in {"none", "handoff"}
        /\ log = <<>>
        /\ waits = 0

----------------------------------------------------------------------------
(* Properties of validateReleasePublication *)

\* the completion messages of validateReleasePublication in the log
Completions == {i \in DOMAIN log : log[i].text = "Release validation completed"}

\* C36: in the revision with the marker file, validateReleasePublication is started
\* exactly when runPost returned without throwing (also after a skipped notification
\* and after a job status of failure) and never when runPost threw; once started it
\* makes exactly 10 waits, logs its completion message once and the post phase ends.
\* The other revisions never wait.
C36_Validation ==
    /\ [](/\ waits <= 10
          /\ variant # "sentinel" => (waits = 0 /\ Completions = {})
          /\ (pc = "validate" \/ waits > 0) => thrown = NoThrown
          /\ ~Finished => Completions = {}
          /\ (variant = "sentinel" /\ Finished /\ thrown = NoThrown) =>
                (waits = 10 /\ Cardinality(Completions) = 1)
          /\ (Finished /\ thrown # NoThrown) => (waits = 0 /\ Completions = {}))
    /\ (pc = "validate") ~> (Finished /\ waits = 10)
    /\ (variant = "sentinel" /\ pc = "top" /\ thrown = NoThrown) ~> (waits = 10)

\* the validation ran to its end after a notification that reported a failed job
C36_Witness ==
    /\ variant = "sentinel"
    /\ Finished
    /\ determinedStatus = "failure"
    /\ response.code = 200
    /\ summaryCalls = 0
    /\ waits = 10
    /\ Cardinality(Completions) = 1

----------------------------------------------------------------------------
(* Properties of the package_managers value *)

\* an array whose elements are all strings
ListOfStrings(v) == v.t = "array" /\ \A k \in DOMAIN v.items : v.items[k].t = "string"

\* C37: the package_managers value of every sent payload that has one is a list of
\* strings, whatever the cached state string was.
C37_ListOfStrings ==
    \A i \in DOMAIN httpCalls :
        httpCalls[i].body.hasPm => ListOfStrings(httpCalls[i].body.pm)

----------------------------------------------------------------------------
(* Properties of the entry points *)

\* C38: run() and runPostScriptLogic never end with an escaped exception: a job that can
\* take no further step has both phases over; each of them calls setFailed at most
\* once, exactly once when a thrown value reached its top-level handler and not at all
\* otherwise, and never before the handler ran.
C38_EntryPointsResolve ==
    /\ ~(ENABLED NextJob) => (MainFinished /\ Finished)
    /\ pc \in {"idle", "start", "parse", "check", "resolve", "getRun", "listJobs", "build",
               "send", "handle", "summary", "caught", "finally", "top", "validate", "done"}
    /\ Len(mainFailed) <= 1
    /\ Len(failed) <= 1
    /\ ~MainFinished => mainFailed = <<>>
    /\ ~Finished => failed = <<>>
    /\ MainFinished => (Len(mainFailed) = 1 <=> mainThrown # NoThrown)
    /\ Finished => (Len(failed) = 1 <=> thrown # NoThrown)

\* both phases ended with one setFailed each: the CLI setup failed, then ci/end did
C38_Witness ==
    /\ MainFinished
    /\ Finished
    /\ Len(mainFailed) = 1
    /\ Len(failed) = 1
    /\ mainThrown # NoThrown
    /\ thrown # NoThrown

----------------------------------------------------------------------------
(* Properties of detectPackageManagers *)

Detected == mpc = "detected"

\* the root path is empty or names nothing on disk
RootMissing == workspace.path = "" \/ ~workspace.exists

\* at most two directory levels below the root and under no excluded directory
Traversable(dirs) ==
    /\ Len(dirs) <= 2
    /\ \A i \in DOMAIN dirs : dirs[i] # "node_modules"

\* the file is an indicator file of the manager
Indicates(f, manager) ==
    CASE manager = "npm" -> f.name \in {<<"package.json">>, <<"my-", "package.json">>}
      [] manager = "pip" -> f.name \in {<<"Setup.PY">>, <<"requirements.txt">>}
      [] OTHER           -> FALSE

\* C39: detectPackageManagers returns (it reads no directory more than two levels below
\* the root and none inside node_modules); every manager it reports has an indicator
\* file at most two directory levels below the root and outside node_modules, and
\* every manager with such a file is reported; no manager is reported twice; and for an
\* empty or missing root path it returns the empty list and reads no directory.
C39_DetectPackageManagers ==
    Detected =>
        /\ \A p \in visited : Traversable(p)
        /\ \A i \in DOMAIN detected :
              \E f \in workspace.files : Indicates(f, detected[i]) /\ Traversable(f.dirs)
        /\ \A f \in workspace.files : \A m \in {"npm", "pip"} :
              (Indicates(f, m) /\ Traversable(f.dirs)) => m \in Elements(detected)
        /\ \A i, j \in DOMAIN detected : detected[i] = detected[j] => i = j
        /\ RootMissing => (detected = <<>> /\ visited = {})

\* pip was found two levels down; the npm file three levels down was not
C39_Witness ==
    /\ Detected
    /\ workspace.files = { [dirs |-> <<"src", "src", "src">>, name |-> <<"package.json">>],
                           [dirs |-> <<"src", "src">>, name |-> <<"Setup.PY">>] }
    /\ detected = <<"pip">>
    /\ visited = { <<>>, <<"src">>, <<"src", "src">> }

====
